---- MODULE Spec2Model ----
(***************************************************************************)
(* A model of certbot's Reverter (src/certbot/reverter.py): the temporary, *)
(* in-progress and finalized configuration checkpoints, the staging calls, *)
(* finalize_checkpoint, rollback_checkpoints and the recovery routine.     *)
(*                                                                         *)
(* The file system is modelled by what the Reverter reads and writes:      *)
(*   live      the configuration files the plugins edit                    *)
(*   temp      the directory config.temp_checkpoint_dir                    *)
(*   prog      the directory config.in_progress_dir                        *)
(*   backups   the directory config.backup_dir: name -> checkpoint         *)
(* A handler is one action; a handler that dies part-way (process crash)   *)
(* is the same handler run with a bounded number of file-system writes.    *)
(***************************************************************************)
EXTENDS Integers, Sequences, FiniteSets, TLC

VARIABLES live, temp, prog, backups, last, log, hist, nops, output

vars == <<live, temp, prog, backups, last, log, hist, nops, output>>

(***************************************************************************)
(* Bounds of the model.                                                    *)
(***************************************************************************)
\* API calls in one behaviour
MaxOps == 3
\* paths handed to one staging or registration call
MaxFiles == 2
\* undo commands held by one checkpoint
MaxCommands == 1
\* the clock reads ClockBase .. ClockBase + ClockSpan hundredths of a second
ClockBase == 1000
ClockSpan == 1

(***************************************************************************)
(* Values.                                                                 *)
(***************************************************************************)
\* Absolute paths as <<directory, base name>>; both share one base name.
Paths == { <<"a", "conf">>, <<"b", "conf">> }

Contents == {"A", "B"}

\* live[p] of a path that does not exist
NoFile == "NoFile"

\* a history entry that was never set
None == "None"

\* save_notes / title arguments; a text is a sequence of written chunks
Notes == { <<>>, <<"n">> }

Titles == {"t"}

Commands == { <<"undo">> }

Range(s) == { s[i] : i \in 1..Len(s) }

SeqsUpTo(S, n) == UNION { [1..k -> S] : k \in 0..n }

\* os.path.basename
Basename(path) == path[2]

(***************************************************************************)
(* Files of a checkpoint directory.  A list file (FILEPATHS, NEW_FILES,    *)
(* COMMANDS) is missing, holds a JSON list ("ok"), or holds text json      *)
(* cannot decode ("bad": the empty file open(.., 'w') leaves, a torn       *)
(* write).  A text file (CHANGES_SINCE, CHANGES_SINCE.tmp) is missing or   *)
(* holds its chunks.                                                       *)
(***************************************************************************)
NoList == [st |-> "missing", v |-> <<>>]

BadList == [st |-> "bad", v |-> <<>>]

NoText == [st |-> "missing", v |-> <<>>]

NoSlots == [s \in {} |-> NoFile]

\* a checkpoint directory that does not exist
NoDir ==
    [ dir |-> FALSE, FILEPATHS |-> NoList, NEW_FILES |-> NoList,
      COMMANDS |-> NoList, CHANGES_SINCE |-> NoText, CHANGES_TMP |-> NoText,
      slots |-> NoSlots ]

\* util.make_or_verify_dir: the directory exists afterwards
MakeDir(cp) == [cp EXCEPT !.dir = TRUE]

\* _read_json_file: a missing file and an undecodable file both read as []
ReadJsonFile(file) == IF file.st = "ok" THEN file.v ELSE <<>>

\* _write_json_file, after its open(.., 'w') and after its write
TruncatedFile == BadList

WriteJsonFile(data) == [st |-> "ok", v |-> data]

\* "<basename>_<idx>" inside the checkpoint directory
SlotName(path, idx) == <<Basename(path), idx>>

\* shutil.copy2(src, slot): creates or overwrites the slot
CopyToSlot(cp, name, content) ==
    [cp EXCEPT !.slots =
        [s \in (DOMAIN cp.slots) \cup {name} |->
            IF s = name THEN content ELSE cp.slots[s]]]

\* open(CHANGES_SINCE, "a"): creates the file when missing
OpenAppend(text) == [st |-> "ok", v |-> text.v]

\* notes_fd.write(save_notes)
AppendText(text, chunks) == [st |-> "ok", v |-> text.v \o chunks]

\* a write budget that no handler exhausts: the process does not die
NoCrash == MaxFiles + 8

(***************************************************************************)
(* _add_to_checkpoint_dir (lines 208-248).  fuel is the number of          *)
(* file-system writes the process performs before it dies.                 *)
(***************************************************************************)
\* mutant: every named file is copied and indexed again
NeedsBackup_Always(filename, existing_filepaths) == TRUE

\* line 232: "No need to copy/index already existing files"
NeedsBackup(filename, existing_filepaths) ==
    filename \notin Range(existing_filepaths)

\* mutant: the index is not advanced
NextIdx_Same(idx) == idx

\* line 240
NextIdx(idx) == idx + 1

\* mutant: a file already listed is copied again over its backup
RECURSIVE BackupLoop_Refreshes(_, _, _, _, _, _)
BackupLoop_Refreshes(cp, files, existing_filepaths, idx, save_files, fuel) ==
    IF save_files = <<>>
    THEN [cp |-> cp, existing |-> existing_filepaths, res |-> "ok", fuel |-> fuel]
    ELSE LET filename == Head(save_files) IN
         IF ~NeedsBackup(filename, existing_filepaths)
         THEN LET at == CHOOSE i \in 1..Len(existing_filepaths) :
                            existing_filepaths[i] = filename
              IN BackupLoop_Refreshes(
                     IF files[filename] = NoFile THEN cp
                     ELSE CopyToSlot(cp, SlotName(filename, at - 1), files[filename]),
                     files, existing_filepaths, idx, Tail(save_files), fuel)
         ELSE IF files[filename] = NoFile
         THEN [cp |-> cp, existing |-> existing_filepaths, res |-> "IOError", fuel |-> fuel]
         ELSE IF fuel = 0
         THEN [cp |-> cp, existing |-> existing_filepaths, res |-> "crash", fuel |-> 0]
         ELSE BackupLoop_Refreshes(CopyToSlot(cp, SlotName(filename, idx), files[filename]),
                                   files, Append(existing_filepaths, filename),
                                   NextIdx(idx), Tail(save_files), fuel - 1)

RECURSIVE BackupLoop(_, _, _, _, _, _)
BackupLoop(cp, files, existing_filepaths, idx, save_files, fuel) ==
    IF save_files = <<>>
    THEN [cp |-> cp, existing |-> existing_filepaths, res |-> "ok", fuel |-> fuel]
    ELSE LET filename == Head(save_files) IN
         IF ~NeedsBackup(filename, existing_filepaths)
         THEN BackupLoop(cp, files, existing_filepaths, idx, Tail(save_files), fuel)
         ELSE IF files[filename] = NoFile
         THEN [cp |-> cp, existing |-> existing_filepaths, res |-> "IOError", fuel |-> fuel]
         ELSE IF fuel = 0
         THEN [cp |-> cp, existing |-> existing_filepaths, res |-> "crash", fuel |-> 0]
         ELSE BackupLoop(CopyToSlot(cp, SlotName(filename, idx), files[filename]),
                         files, Append(existing_filepaths, filename),
                         NextIdx(idx), Tail(save_files), fuel - 1)

\* lines 241 and 247-248, each write one unit of fuel
PersistAndNote(cp, existing_filepaths, save_notes, fuel) ==
    IF fuel = 0 THEN [cp |-> cp, res |-> "crash"]
    ELSE LET c1 == [cp EXCEPT !.FILEPATHS = TruncatedFile] IN
    IF fuel = 1 THEN [cp |-> c1, res |-> "crash"]
    ELSE LET c2 == [c1 EXCEPT !.FILEPATHS = WriteJsonFile(existing_filepaths)] IN
    IF fuel = 2 THEN [cp |-> c2, res |-> "crash"]
    ELSE LET c3 == [c2 EXCEPT !.CHANGES_SINCE = OpenAppend(c2.CHANGES_SINCE)] IN
    IF fuel = 3 THEN [cp |-> c3, res |-> "crash"]
    ELSE [cp |-> [c3 EXCEPT !.CHANGES_SINCE = AppendText(c3.CHANGES_SINCE, save_notes)],
          res |-> "ok"]

\* mutant: the list and the note are written also when a copy failed
AddToCheckpointDir_PersistsOnError(cp, files, save_files, save_notes, fuel) ==
    IF fuel = 0 /\ ~cp.dir THEN [cp |-> cp, res |-> "crash"]
    ELSE LET f0 == IF cp.dir THEN fuel ELSE fuel - 1
             c0 == MakeDir(cp)
             existing_filepaths == ReadJsonFile(c0.FILEPATHS)
             loop == BackupLoop(c0, files, existing_filepaths,
                                Len(existing_filepaths), save_files, f0)
         IN IF loop.res = "IOError"
            THEN [cp |-> PersistAndNote(loop.cp, loop.existing, save_notes, NoCrash).cp,
                  res |-> "ReverterError"]
            ELSE IF loop.res = "crash" THEN [cp |-> loop.cp, res |-> "crash"]
            ELSE PersistAndNote(loop.cp, loop.existing, save_notes, loop.fuel)

AddToCheckpointDir(cp, files, save_files, save_notes, fuel) ==
    IF fuel = 0 /\ ~cp.dir THEN [cp |-> cp, res |-> "crash"]
    ELSE LET f0 == IF cp.dir THEN fuel ELSE fuel - 1
             c0 == MakeDir(cp)
             existing_filepaths == ReadJsonFile(c0.FILEPATHS)
             loop == BackupLoop(c0, files, existing_filepaths,
                                Len(existing_filepaths), save_files, f0)
         IN IF loop.res = "IOError" THEN [cp |-> loop.cp, res |-> "ReverterError"]
            ELSE IF loop.res = "crash" THEN [cp |-> loop.cp, res |-> "crash"]
            ELSE PersistAndNote(loop.cp, loop.existing, save_notes, loop.fuel)

(***************************************************************************)
(* _check_tempfile_saves (lines 296-320): TRUE when it raises.             *)
(***************************************************************************)
ProtectedFiles(tmp) ==
    ReadJsonFile(tmp.FILEPATHS) \o ReadJsonFile(tmp.NEW_FILES)

\* mutant: only FILEPATHS of the temporary checkpoint is consulted
CheckTempfileSaves_PathListOnly(tmp, save_files) ==
    \E i \in 1..Len(ReadJsonFile(tmp.FILEPATHS)) :
        ReadJsonFile(tmp.FILEPATHS)[i] \in Range(save_files)

CheckTempfileSaves(tmp, save_files) ==
    \E i \in 1..Len(ProtectedFiles(tmp)) :
        ProtectedFiles(tmp)[i] \in Range(save_files)

(***************************************************************************)
(* add_to_temp_checkpoint (186-194) and add_to_checkpoint (196-206).       *)
(***************************************************************************)
\* mutant: stage_temporary consults the in-progress checkpoint's lists
AddToTempCheckpoint_ChecksInProgress(tmp, inprog, files, save_files, save_notes, fuel) ==
    IF CheckTempfileSaves(inprog, save_files)
    THEN [cp |-> tmp, res |-> "ReverterError"]
    ELSE AddToCheckpointDir(tmp, files, save_files, save_notes, fuel)

AddToTempCheckpoint(tmp, inprog, files, save_files, save_notes, fuel) ==
    AddToCheckpointDir(tmp, files, save_files, save_notes, fuel)

AddToCheckpoint(tmp, inprog, files, save_files, save_notes, fuel) ==
    IF CheckTempfileSaves(tmp, save_files)
    THEN [cp |-> inprog, res |-> "ReverterError"]
    ELSE AddToCheckpointDir(inprog, files, save_files, save_notes, fuel)

(***************************************************************************)
(* register_file_creation (322-356), register_undo_command (358-382).      *)
(***************************************************************************)
RECURSIVE AppendAbsent(_, _)
AppendAbsent(ex_files, files) ==
    IF files = <<>> THEN ex_files
    ELSE AppendAbsent(IF Head(files) \in Range(ex_files) THEN ex_files
                      ELSE Append(ex_files, Head(files)),
                      Tail(files))

RegisterFileCreation(cp, files) ==
    IF files = <<>> THEN [cp |-> cp, res |-> "ReverterError"]
    ELSE LET c0 == MakeDir(cp) IN
         [cp |-> [c0 EXCEPT !.NEW_FILES =
                     WriteJsonFile(AppendAbsent(ReadJsonFile(c0.NEW_FILES), files))],
          res |-> "ok"]

RegisterUndoCommand(cp, command) ==
    LET c0 == MakeDir(cp) IN
    [cp |-> [c0 EXCEPT !.COMMANDS =
                WriteJsonFile(Append(ReadJsonFile(c0.COMMANDS), command))],
     res |-> "ok"]

(***************************************************************************)
(* _recover_checkpoint (250-285) and its helpers.  The environment may     *)
(* make one step fail: fault.at names the step ("restore", "remove",       *)
(* "rmtree") and fault.k the entry it hits.  Each step the recovery        *)
(* performs is appended to the log.                                        *)
(***************************************************************************)
NoFault == [at |-> "none", k |-> 0]

Faults ==
    {NoFault, [at |-> "rmtree", k |-> 0]}
    \cup { [at |-> a, k |-> i] : a \in {"restore", "remove"}, i \in 0..(MaxFiles - 1) }

Event(ev, dirid, arg) == [ev |-> ev, dir |-> dirid, arg |-> arg]

\* util.run_script on the k-th command of the list.  The outcome names what
\* the environment does to the commands: all run ("ok"), all exit non-zero
\* ("exit"), none can be launched ("launch"), or only the first one exits
\* non-zero ("exit1") or cannot be launched ("launch1").  run_script raises
\* SubprocessError in both kinds of failure.
RunScript(outcome, k) ==
    IF outcome = "ok" \/ (outcome \in {"exit1", "launch1"} /\ k > 1)
    THEN "ok" ELSE "SubprocessError"

\* mutant: the commands are run newest first
RunUndoCommands_NewestFirst(commands, dirid, outcome) ==
    [k \in 1..Len(commands) |->
        Event(IF RunScript(outcome, Len(commands) + 1 - k) = "ok"
              THEN "cmd" ELSE "cmd_failed",
              dirid, commands[Len(commands) + 1 - k])]

\* mutant: the first SubprocessError ends the loop
RunUndoCommands_StopsAtFailure(commands, dirid, outcome) ==
    LET failed == { k \in 1..Len(commands) : RunScript(outcome, k) # "ok" }
        n == IF failed = {} THEN Len(commands)
             ELSE CHOOSE k \in failed : \A o \in failed : k <= o
    IN [k \in 1..n |->
           Event(IF RunScript(outcome, k) = "ok" THEN "cmd" ELSE "cmd_failed",
                 dirid, commands[k])]

\* _run_undo_commands (287-294): a SubprocessError is logged, never raised
RunUndoCommands(commands, dirid, outcome) ==
    [k \in 1..Len(commands) |->
        Event(IF RunScript(outcome, k) = "ok" THEN "cmd" ELSE "cmd_failed",
              dirid, commands[k])]

\* mutant: no file is copied back
RestoreLoop_Nothing(cp, files, filepaths, idx, dirid, fault) ==
    [files |-> files, res |-> "ok", log |-> <<>>]

\* mutant: a copy that fails is passed over
RECURSIVE RestoreLoop_SkipsFailed(_, _, _, _, _, _)
RestoreLoop_SkipsFailed(cp, files, filepaths, idx, dirid, fault) ==
    IF idx >= Len(filepaths) THEN [files |-> files, res |-> "ok", log |-> <<>>]
    ELSE LET path == filepaths[idx + 1]
             slot == SlotName(path, idx)
         IN IF slot \notin DOMAIN cp.slots \/ (fault.at = "restore" /\ fault.k = idx)
            THEN RestoreLoop_SkipsFailed(cp, files, filepaths, idx + 1, dirid, fault)
            ELSE LET rest == RestoreLoop_SkipsFailed(cp, [files EXCEPT ![path] = cp.slots[slot]],
                                                     filepaths, idx + 1, dirid, fault)
                 IN [rest EXCEPT !.log =
                        <<Event("restore", dirid, <<path, cp.slots[slot]>>)>> \o @]

\* lines 264-275: enumerate(FILEPATHS), copy2(slot, path)
RECURSIVE RestoreLoop(_, _, _, _, _, _)
RestoreLoop(cp, files, filepaths, idx, dirid, fault) ==
    IF idx >= Len(filepaths) THEN [files |-> files, res |-> "ok", log |-> <<>>]
    ELSE LET path == filepaths[idx + 1]
             slot == SlotName(path, idx)
         IN IF slot \notin DOMAIN cp.slots \/ (fault.at = "restore" /\ fault.k = idx)
            THEN [files |-> files, res |-> "ReverterError", log |-> <<>>]
            ELSE LET rest == RestoreLoop(cp, [files EXCEPT ![path] = cp.slots[slot]],
                                         filepaths, idx + 1, dirid, fault)
                 IN [rest EXCEPT !.log =
                        <<Event("restore", dirid, <<path, cp.slots[slot]>>)>> \o @]

\* mutant: a path that is not found ends the loop
RECURSIVE RemoveLoop_StopsAtMissing(_, _, _, _, _)
RemoveLoop_StopsAtMissing(files, paths, i, dirid, fault) ==
    IF i > Len(paths) THEN [files |-> files, res |-> "ok", log |-> <<>>]
    ELSE LET path == paths[i] IN
         IF files[path] = NoFile
         THEN [files |-> files, res |-> "ok", log |-> <<Event("not_found", dirid, path)>>]
         ELSE IF fault.at = "remove" /\ fault.k = i - 1
         THEN [files |-> files, res |-> "ReverterError", log |-> <<>>]
         ELSE LET rest == RemoveLoop_StopsAtMissing([files EXCEPT ![path] = NoFile],
                                                    paths, i + 1, dirid, fault)
              IN [rest EXCEPT !.log = <<Event("delete", dirid, path)>> \o @]

\* _remove_contained_files (425-459), its loop
RECURSIVE RemoveLoop(_, _, _, _, _)
RemoveLoop(files, paths, i, dirid, fault) ==
    IF i > Len(paths) THEN [files |-> files, res |-> "ok", log |-> <<>>]
    ELSE LET path == paths[i] IN
         IF files[path] = NoFile
         THEN LET rest == RemoveLoop(files, paths, i + 1, dirid, fault)
              IN [rest EXCEPT !.log = <<Event("not_found", dirid, path)>> \o @]
         ELSE IF fault.at = "remove" /\ fault.k = i - 1
         THEN [files |-> files, res |-> "ReverterError", log |-> <<>>]
         ELSE LET rest == RemoveLoop([files EXCEPT ![path] = NoFile],
                                     paths, i + 1, dirid, fault)
              IN [rest EXCEPT !.log = <<Event("delete", dirid, path)>> \o @]

RemoveContainedFiles(file_list, files, dirid, fault) ==
    IF file_list.st = "missing" THEN [files |-> files, res |-> "ok", log |-> <<>>]
    ELSE RemoveLoop(files, ReadJsonFile(file_list), 1, dirid, fault)

\* mutant: the checkpoint directory is left in place
RemoveTree_Keeps(cp, dirid, fault) == [cp |-> cp, res |-> "ok", log |-> <<>>]

\* shutil.rmtree fails after it has unlinked CHANGES_SINCE
TornTree == [at |-> "rmtree", k |-> 1]

\* lines 280-285: shutil.rmtree(cp_dir); it unlinks the entries of the
\* directory one by one, and a failure leaves those it had not reached
RemoveTree(cp, dirid, fault) ==
    IF fault.at = "rmtree"
    THEN [cp |-> IF fault = TornTree THEN [cp EXCEPT !.CHANGES_SINCE = NoText] ELSE cp,
          res |-> "ReverterError", log |-> <<>>]
    ELSE [cp |-> NoDir, res |-> "ok", log |-> <<Event("rmtree", dirid, <<>>)>>]

RecoverCheckpoint(cp, files, dirid, fault, outcome) ==
    LET cmds == RunUndoCommands(ReadJsonFile(cp.COMMANDS), dirid, outcome)
        restored == RestoreLoop(cp, files, ReadJsonFile(cp.FILEPATHS), 0, dirid, fault)
    IN IF restored.res # "ok"
       THEN [cp |-> cp, files |-> restored.files, res |-> restored.res,
             log |-> cmds \o restored.log]
       ELSE LET removed == RemoveContainedFiles(cp.NEW_FILES, restored.files, dirid, fault)
            IN IF removed.res # "ok"
               THEN [cp |-> cp, files |-> removed.files, res |-> removed.res,
                     log |-> cmds \o restored.log \o removed.log]
               ELSE LET gone == RemoveTree(cp, dirid, fault)
                    IN [cp |-> gone.cp, files |-> removed.files, res |-> gone.res,
                        log |-> cmds \o restored.log \o removed.log \o gone.log]

TempId == [kind |-> "temp", name |-> <<>>]

ProgId == [kind |-> "prog", name |-> <<>>]

BackupId(name) == [kind |-> "backup", name |-> name]

\* revert_temporary_config (71-89)
RevertTemporaryConfig(tmp, files, fault, outcome) ==
    IF tmp.dir
    THEN RecoverCheckpoint(tmp, files, TempId, fault, outcome)
    ELSE [cp |-> tmp, files |-> files, res |-> "ok", log |-> <<>>]

\* mutant: a failed revert of the temporary checkpoint is passed over
TempRevertStops_Never(reverted) == FALSE

\* line 412: revert_temporary_config() raises out of recovery_routine
TempRevertStops(reverted) == reverted.res # "ok"

\* mutant: the in-progress checkpoint is recovered first
RecoveryRoutine_InProgressFirst(tmp, inprog, files, tfault, pfault, outcome) ==
    LET rec == IF inprog.dir
               THEN RecoverCheckpoint(inprog, files, ProgId, pfault, outcome)
               ELSE [cp |-> inprog, files |-> files, res |-> "ok", log |-> <<>>]
        reverted == RevertTemporaryConfig(tmp, rec.files, tfault, outcome)
    IN IF rec.res # "ok"
       THEN [temp |-> tmp, prog |-> rec.cp, files |-> rec.files,
             res |-> rec.res, log |-> rec.log]
       ELSE [temp |-> reverted.cp, prog |-> rec.cp, files |-> reverted.files,
             res |-> reverted.res, log |-> rec.log \o reverted.log]

\* recovery_routine (397-423)
RecoveryRoutine(tmp, inprog, files, tfault, pfault, outcome) ==
    LET reverted == RevertTemporaryConfig(tmp, files, tfault, outcome) IN
    IF TempRevertStops(reverted)
    THEN [temp |-> reverted.cp, prog |-> inprog, files |-> reverted.files,
          res |-> reverted.res, log |-> reverted.log]
    ELSE IF inprog.dir
    THEN LET rec == RecoverCheckpoint(inprog, reverted.files, ProgId, pfault, outcome)
         IN [temp |-> reverted.cp, prog |-> rec.cp, files |-> rec.files,
             res |-> rec.res, log |-> reverted.log \o rec.log]
    ELSE [temp |-> reverted.cp, prog |-> inprog, files |-> reverted.files,
          res |-> "ok", log |-> reverted.log]

(***************************************************************************)
(* Checkpoint names.  A name is the string str(time.time()) gives, a       *)
(* sequence of character codes; a time is a number of hundredths of a      *)
(* second (Python 2's str() keeps two decimals of an epoch time).          *)
(***************************************************************************)
RECURSIVE Digits(_)
Digits(n) == IF n < 10 THEN <<48 + n>> ELSE Append(Digits(n \div 10), 48 + (n % 10))

\* str(float): "10.0", "10.5", "10.05"
Str(t) ==
    Digits(t \div 100) \o <<46>> \o
    (IF t % 10 = 0 THEN <<48 + ((t % 100) \div 10)>>
     ELSE <<48 + ((t % 100) \div 10), 48 + (t % 10)>>)

RECURSIVE Number(_)
Number(ds) == IF ds = <<>> THEN 0 ELSE 10 * Number(SubSeq(ds, 1, Len(ds) - 1)) + (ds[Len(ds)] - 48)

DotAt(name) == CHOOSE i \in 1..Len(name) : name[i] = 46

\* float(name), in hundredths
Float(name) ==
    LET d == DotAt(name)
        frac == SubSeq(name, d + 1, Len(name))
    IN 100 * Number(SubSeq(name, 1, d - 1))
       + (IF Len(frac) = 1 THEN 10 * Number(frac) ELSE Number(frac))

\* the order list.sort() gives strings
RECURSIVE StrLess(_, _)
StrLess(a, b) ==
    IF b = <<>> THEN FALSE
    ELSE IF a = <<>> THEN TRUE
    ELSE IF Head(a) # Head(b) THEN Head(a) < Head(b)
    ELSE StrLess(Tail(a), Tail(b))

\* the last element after names.sort()
SortedLast(names) == CHOOSE m \in names : \A o \in names : o = m \/ StrLess(o, m)

\* glob "[0-9]*"
GlobDigit(names) == { n \in names : Len(n) > 0 /\ n[1] \in 48..57 }

\* line 510: the "time travel" step, one second
TimeTravel(t) == t + 100

\* line 519: the same-tick step, 0.01 second
RaceStep(t) == t + 1

\* _checkpoint_timestamp (502-521)
CheckpointTimestamp(names, now) ==
    LET timestamp == Str(now)
        others == GlobDigit(names) \cup {timestamp}
        newest == SortedLast(others)
    IN IF newest # timestamp THEN Str(TimeTravel(Float(newest)))
       ELSE IF timestamp \in GlobDigit(names) THEN Str(RaceStep(Float(newest)))
       ELSE timestamp

\* mutant: the new entry replaces the listing
WithEntry_Alone(bk, name, cp) == [n \in {name} |-> cp]

\* the directory listing with one entry added, replaced or removed
WithEntry(bk, name, cp) ==
    [n \in (DOMAIN bk) \cup {name} |-> IF n = name THEN cp ELSE bk[n]]

WithoutEntry(bk, name) == [n \in (DOMAIN bk) \ {name} |-> bk[n]]

\* mutant: os.rename replaces an existing final_dir
RenameFails_Replaces(bk, name, refused) == refused

\* os.rename(in_progress_dir, final_dir) raises OSError: the environment
\* refuses, or final_dir is an existing (never empty) checkpoint directory
RenameFails(bk, name, refused) == refused \/ name \in DOMAIN bk

\* mutant: the directory is copied to its final name, the source is kept
TimestampProgressDir_KeepsSource(inprog, bk, now1, now2, refused1, refused2) ==
    LET t1 == CheckpointTimestamp(DOMAIN bk, now1)
    IN [prog |-> inprog, backups |-> WithEntry(bk, t1, inprog), res |-> "ok", name |-> t1]

\* mutant: a third attempt follows two refused renames
TimestampProgressDir_ThreeAttempts(inprog, bk, now1, now2, refused1, refused2) ==
    LET t1 == CheckpointTimestamp(DOMAIN bk, now1)
        t2 == CheckpointTimestamp(DOMAIN bk, now2)
    IN IF ~RenameFails(bk, t1, refused1)
       THEN [prog |-> NoDir, backups |-> WithEntry(bk, t1, inprog), res |-> "ok", name |-> t1]
       ELSE IF ~RenameFails(bk, t2, FALSE)
       THEN [prog |-> NoDir, backups |-> WithEntry(bk, t2, inprog), res |-> "ok", name |-> t2]
       ELSE [prog |-> inprog, backups |-> bk, res |-> "ReverterError", name |-> <<>>]

\* _timestamp_progress_dir (523-542): two attempts, the clock read at each
TimestampProgressDir(inprog, bk, now1, now2, refused1, refused2) ==
    LET t1 == CheckpointTimestamp(DOMAIN bk, now1)
        t2 == CheckpointTimestamp(DOMAIN bk, now2)
    IN IF ~RenameFails(bk, t1, refused1)
       THEN [prog |-> NoDir, backups |-> WithEntry(bk, t1, inprog), res |-> "ok", name |-> t1]
       ELSE IF ~RenameFails(bk, t2, refused2)
       THEN [prog |-> NoDir, backups |-> WithEntry(bk, t2, inprog), res |-> "ok", name |-> t2]
       ELSE [prog |-> inprog, backups |-> bk, res |-> "ReverterError", name |-> <<>>]

(***************************************************************************)
(* finalize_checkpoint (461-500).  fault names the step the environment    *)
(* makes fail: "none", "open_tmp", "read_orig", "move", "rename1" (the     *)
(* first rename), "rename2" (both renames).                                *)
(***************************************************************************)
\* line 483
NoChanges == <<"No changes">>

\* line 488: "-- %s --\n" % title
TitleLine(title) == <<"-- " \o title \o " --">>

\* lines 480-483
EnsureNotes(cp) ==
    IF cp.CHANGES_SINCE.st = "missing"
    THEN [cp EXCEPT !.CHANGES_SINCE = [st |-> "ok", v |-> NoChanges]]
    ELSE cp

\* mutant: the title is written after the notes
TitledNotes_TitleLast(cp, title) ==
    [st |-> "ok", v |-> cp.CHANGES_SINCE.v \o TitleLine(title)]

\* lines 487-490: CHANGES_SINCE.tmp as written
TitledNotes(cp, title) == [st |-> "ok", v |-> TitleLine(title) \o cp.CHANGES_SINCE.v]

\* lines 486-497
AddTitle(cp, title, fault) ==
    IF fault = "open_tmp" THEN [cp |-> cp, res |-> "ReverterError"]
    ELSE IF fault = "read_orig"
    THEN [cp |-> [cp EXCEPT !.CHANGES_TMP = [st |-> "ok", v |-> TitleLine(title)]],
          res |-> "ReverterError"]
    ELSE IF fault = "move"
    THEN [cp |-> [cp EXCEPT !.CHANGES_TMP = TitledNotes(cp, title)],
          res |-> "ReverterError"]
    ELSE [cp |-> [cp EXCEPT !.CHANGES_SINCE = TitledNotes(cp, title),
                            !.CHANGES_TMP = NoText],
          res |-> "ok"]

\* mutant: no test that the in-progress directory exists (lines 474-475)
FinalizeCheckpoint_Always(inprog, bk, title, now1, now2, fault) ==
    LET titled == AddTitle(EnsureNotes(inprog), title, fault) IN
    IF titled.res # "ok"
    THEN [prog |-> titled.cp, backups |-> bk, res |-> titled.res, name |-> <<>>]
    ELSE TimestampProgressDir(titled.cp, bk, now1, now2,
                              fault \in {"rename1", "rename2"}, fault = "rename2")

FinalizeCheckpoint(inprog, bk, title, now1, now2, fault) ==
    IF ~inprog.dir
    THEN [prog |-> inprog, backups |-> bk, res |-> "ok", name |-> <<>>]
    ELSE LET titled == AddTitle(EnsureNotes(inprog), title, fault) IN
         IF titled.res # "ok"
         THEN [prog |-> titled.cp, backups |-> bk, res |-> titled.res, name |-> <<>>]
         ELSE TimestampProgressDir(titled.cp, bk, now1, now2,
                                   fault \in {"rename1", "rename2"}, fault = "rename2")

\* the in-progress directory after each file-system write finalize_checkpoint
\* performs before the rename of the directory (lines 480-493): the
\* placeholder notes opened and written, CHANGES_SINCE.tmp opened, the title
\* written, the notes written, the move over CHANGES_SINCE
FinalizeWrites(inprog, title) ==
    LET ensured == EnsureNotes(inprog)
        placeholder ==
            IF inprog.CHANGES_SINCE.st = "missing"
            THEN << [inprog EXCEPT !.CHANGES_SINCE = [st |-> "ok", v |-> <<>>]],
                    ensured >>
            ELSE <<>>
    IN <<inprog>> \o placeholder \o
       << [ensured EXCEPT !.CHANGES_TMP = [st |-> "ok", v |-> <<>>]],
          [ensured EXCEPT !.CHANGES_TMP = [st |-> "ok", v |-> TitleLine(title)]],
          [ensured EXCEPT !.CHANGES_TMP = TitledNotes(ensured, title)],
          AddTitle(ensured, title, "none").cp >>

\* finalize_checkpoint in a process that dies after fuel writes; the last
\* write is the os.rename of the directory (line 532)
CrashInFinalize(inprog, bk, title, now, fuel) ==
    LET writes == FinalizeWrites(inprog, title) IN
    IF ~inprog.dir
    THEN [prog |-> inprog, backups |-> bk, res |-> "ok", name |-> <<>>]
    ELSE IF fuel < Len(writes)
    THEN [prog |-> writes[fuel + 1], backups |-> bk, res |-> "crash", name |-> <<>>]
    ELSE [TimestampProgressDir(writes[Len(writes)], bk, now, now, FALSE, FALSE)
            EXCEPT !.res = "crash"]

(***************************************************************************)
(* rollback_checkpoints (91-131).  The argument is [int, v]: int is FALSE  *)
(* for a value int() raises ValueError on.  The fault hits the hit-th      *)
(* checkpoint recovered.                                                   *)
(***************************************************************************)
\* lines 102-110
InvalidInput(rollback) == ~rollback.int \/ rollback.v < 0

RECURSIVE RollbackLoop(_, _, _, _, _, _)
RollbackLoop(bk, files, rollback, fault, hit, outcome) ==
    IF ~(rollback > 0 /\ DOMAIN bk # {})
    THEN [backups |-> bk, files |-> files, res |-> "ok", log |-> <<>>]
    ELSE LET name == SortedLast(DOMAIN bk)
             rec == RecoverCheckpoint(bk[name], files, BackupId(name),
                                      IF hit = 1 THEN fault ELSE NoFault, outcome)
         IN IF rec.res # "ok"
            THEN [backups |-> WithEntry(bk, name, rec.cp), files |-> rec.files,
                  res |-> "ReverterError", log |-> rec.log]
            ELSE LET rest == RollbackLoop(WithoutEntry(bk, name), rec.files,
                                          rollback - 1, fault, hit - 1, outcome)
                 IN [rest EXCEPT !.log = rec.log \o @]

RollbackCheckpoints(bk, files, rollback, fault, hit, outcome) ==
    IF InvalidInput(rollback)
    THEN [backups |-> bk, files |-> files, res |-> "ReverterError", log |-> <<>>]
    ELSE RollbackLoop(bk, files, rollback.v, fault, hit, outcome)

\* line 103, int(rollback).  The argument is [kind, n]: an int n; a float
\* of n halves (n = 3 is 1.5), truncated toward zero; the str of the int n
\* ("2"); or a text int() raises ValueError on.
PyInt(raw) ==
    CASE raw.kind = "int" -> [int |-> TRUE, v |-> raw.n]
      [] raw.kind = "float" ->
            [int |-> TRUE, v |-> IF raw.n >= 0 THEN raw.n \div 2 ELSE 0 - ((0 - raw.n) \div 2)]
      [] raw.kind = "str" -> [int |-> TRUE, v |-> raw.n]
      [] OTHER -> [int |-> FALSE, v |-> 0]

(***************************************************************************)
(* view_config_changes (133-184).  num is [none, v]: the default None, or  *)
(* an int.  The text displayed (or returned, for_logging) is a sequence of *)
(* one summary for each checkpoint listed.                                 *)
(***************************************************************************)
\* float(bkup) does not raise ValueError.  The names of the model are made
\* of digits, dots and letters: float() reads those made of digits and at
\* most one dot.
IsFloat(name) ==
    /\ \A i \in 1..Len(name) : name[i] \in 48..57 \/ name[i] = 46
    /\ \E i \in 1..Len(name) : name[i] \in 48..57
    /\ Cardinality({ i \in 1..Len(name) : name[i] = 46 }) <= 1

\* line 145: backups.sort(reverse=True)
RECURSIVE SortedReverse(_)
SortedReverse(names) ==
    IF names = {} THEN <<>>
    ELSE LET m == SortedLast(names)
         IN <<m>> \o SortedReverse(names \ {m})

\* backups[:num]
Slice(list, num) ==
    IF num >= 0
    THEN SubSeq(list, 1, IF num < Len(list) THEN num ELSE Len(list))
    ELSE SubSeq(list, 1, Len(list) + num)

\* lines 163-178: the lines built from one checkpoint; ctime shows the
\* time in whole seconds
Summary(bkup, cp) ==
    [ bkup |-> bkup, ctime |-> Float(bkup) \div 100,
      changes |-> cp.CHANGES_SINCE.v,
      filepaths |-> ReadJsonFile(cp.FILEPATHS),
      new_files |-> ReadJsonFile(cp.NEW_FILES) ]

ViewConfigChanges(bk, num) ==
    LET sorted == SortedReverse(DOMAIN bk)
        listed == IF ~num.none /\ num.v # 0 THEN Slice(sorted, num.v) ELSE sorted
    IN IF listed = <<>> THEN [res |-> "ok", output |-> <<>>]
       ELSE IF \E i \in 1..Len(listed) : ~IsFloat(listed[i])
       THEN [res |-> "ReverterError", output |-> <<>>]
       ELSE IF \E i \in 1..Len(listed) : bk[listed[i]].CHANGES_SINCE.st = "missing"
       THEN [res |-> "IOError", output |-> <<>>]
       ELSE [res |-> "ok",
             output |-> [i \in 1..Len(listed) |-> Summary(listed[i], bk[listed[i]])]]

(***************************************************************************)
(* History variables (not part of the program): for each checkpoint, what  *)
(* each path held when a staging call that returned normally first named   *)
(* it (first) and last named it (lastc); the name given by the latest      *)
(* successful finalize.                                                    *)
(***************************************************************************)
NoHist == [first |-> [p \in Paths |-> None], lastc |-> [p \in Paths |-> None]]

Staged(h, files, save_files) ==
    [first |-> [p \in Paths |->
                  IF p \in Range(save_files) /\ h.first[p] = None
                  THEN files[p] ELSE h.first[p]],
     lastc |-> [p \in Paths |->
                  IF p \in Range(save_files) THEN files[p] ELSE h.lastc[p]]]

\* the history of a checkpoint directory ends when the directory is removed
Kept(h, cp) == IF cp.dir THEN h ELSE NoHist

KeptFin(fin, bk) == [n \in (DOMAIN fin) \cap (DOMAIN bk) |-> fin[n]]

(***************************************************************************)
(* Inputs.                                                                 *)
(***************************************************************************)
InitContents == {"A"}

FileArgs == SeqsUpTo(Paths, MaxFiles)

NonEmptyFileArgs == FileArgs \ {<<>>}

Clock == ClockBase..(ClockBase + ClockSpan)

\* a clock that also reads values one digit shorter: "9.98" .. "10.01"
WideClock == (ClockBase - ClockSpan - 1)..(ClockBase + ClockSpan)

\* every point at which a staging call can die
CrashFuels == 0..(MaxFiles + 4)

Outcomes == {"ok", "exit", "launch"}

\* also a failure of the first command alone
EngineOutcomes == Outcomes \cup {"exit1", "launch1"}

\* two commands that differ
EngineCommands == { <<"undo">>, <<"redo">> }

FinalizeFaults == {"none", "open_tmp", "read_orig", "move", "rename1", "rename2"}

\* every point at which finalize_checkpoint can die
FinalizeFuels == 0..7

\* rollback arguments: -1 .. MaxRollback, and a value that is no integer
MaxRollback == 3

RollbackArgs ==
    { [int |-> TRUE, v |-> c] : c \in (-1)..MaxRollback } \cup {[int |-> FALSE, v |-> 0]}

\* rollback arguments of every type: ints and their strs -1 .. MaxRollback,
\* floats -1.5 .. MaxRollback / 2, and a text that is no number
RawRollbackArgs ==
    { [kind |-> k, n |-> c] : k \in {"int", "str"}, c \in (-1)..MaxRollback }
    \cup { [kind |-> "float", n |-> h] : h \in (-3)..MaxRollback }
    \cup { [kind |-> "text", n |-> 0] }

\* the limit of view_config_changes: the default, 0 .. MaxRollback
ViewArgs ==
    {[none |-> TRUE, v |-> 0]} \cup { [none |-> FALSE, v |-> n] : n \in 0..MaxRollback }

\* entries of the backup directory the reverter did not create: ".x", "x"
StrayNames == { <<46, 120>>, <<120>> }

\* the faults that hit a step the recovery of cp performs
FaultsOf(cp) ==
    { f \in Faults :
        \/ f = NoFault
        \/ f.at = "rmtree" /\ cp.dir
        \/ f.at = "restore" /\ f.k < Len(ReadJsonFile(cp.FILEPATHS))
        \/ f.at = "remove" /\ f.k < Len(ReadJsonFile(cp.NEW_FILES)) }

OutcomesOf(cps) ==
    IF \E cp \in cps : ReadJsonFile(cp.COMMANDS) # <<>> THEN Outcomes ELSE {"ok"}

(***************************************************************************)
(* The state after construction: an empty checkpoint store.                *)
(***************************************************************************)
Init ==
    /\ live \in [Paths -> InitContents \cup {NoFile}]
    /\ temp = NoDir
    /\ prog = NoDir
    /\ backups = [n \in {} |-> NoDir]
    /\ last = [op |-> "init", res |-> "ok", arg |-> 0]
    /\ log = <<>>
    /\ hist = [temp |-> NoHist, prog |-> NoHist, fin |-> [n \in {} |-> NoHist],
               latest |-> <<>>]
    /\ nops = 0
    /\ output = <<>>

\* the process is running (it has not died inside a handler)
Alive == last.res # "crash"

Called(op, res) == [op |-> op, res |-> res, arg |-> 0]

\* a plugin writes a file it has staged or registered (stage before mutate)
Mutate ==
    /\ Alive
    /\ \E p \in Range(ProtectedFiles(temp)) \cup Range(ProtectedFiles(prog)),
          c \in Contents :
          /\ live[p] # c
          /\ live' = [live EXCEPT ![p] = c]
    /\ UNCHANGED <<temp, prog, backups, last, log, hist, nops, output>>

\* every API call counts, a plugin's edit of a file does not; no call but
\* view_config_changes displays or returns a text
ApiStep == nops' = nops + 1 /\ output' = <<>>

StageTemporaryCall(save_files, save_notes, fuel) ==
    LET r == AddToTempCheckpoint(temp, prog, live, save_files, save_notes, fuel) IN
    /\ temp' = r.cp
    /\ last' = Called("add_to_temp_checkpoint", r.res)
    /\ hist' = IF r.res = "ok"
               THEN [hist EXCEPT !.temp = Staged(@, live, save_files)]
               ELSE hist
    /\ log' = <<>>
    /\ ApiStep
    /\ UNCHANGED <<live, prog, backups>>

StageTemporary(D, F, N, U) ==
    /\ Alive /\ nops < D
    /\ \E save_files \in F, save_notes \in N, fuel \in U :
          StageTemporaryCall(save_files, save_notes, fuel)

StagePermanentCall(save_files, save_notes, fuel) ==
    LET r == AddToCheckpoint(temp, prog, live, save_files, save_notes, fuel) IN
    /\ prog' = r.cp
    /\ last' = Called("add_to_checkpoint", r.res)
    /\ hist' = IF r.res = "ok"
               THEN [hist EXCEPT !.prog = Staged(@, live, save_files)]
               ELSE hist
    /\ log' = <<>>
    /\ ApiStep
    /\ UNCHANGED <<live, temp, backups>>

StagePermanent(D, F, N, U) ==
    /\ Alive /\ nops < D
    /\ \E save_files \in F, save_notes \in N, fuel \in U :
          StagePermanentCall(save_files, save_notes, fuel)

RegisterNewFilesCall(temporary, files) ==
    LET r == RegisterFileCreation(IF temporary THEN temp ELSE prog, files) IN
    /\ temp' = IF temporary THEN r.cp ELSE temp
    /\ prog' = IF temporary THEN prog ELSE r.cp
    /\ last' = Called("register_file_creation", r.res)
    /\ log' = <<>>
    /\ ApiStep
    /\ UNCHANGED <<live, backups, hist>>

RegisterNewFiles(D, T, F) ==
    /\ Alive /\ nops < D
    /\ \E temporary \in T, files \in F : RegisterNewFilesCall(temporary, files)

RegisterCommandCall(temporary, command) ==
    LET r == RegisterUndoCommand(IF temporary THEN temp ELSE prog, command) IN
    /\ temp' = IF temporary THEN r.cp ELSE temp
    /\ prog' = IF temporary THEN prog ELSE r.cp
    /\ last' = Called("register_undo_command", r.res)
    /\ log' = <<>>
    /\ ApiStep
    /\ UNCHANGED <<live, backups, hist>>

RegisterCommand(D, T) ==
    /\ Alive /\ nops < D
    /\ \E temporary \in T, command \in Commands :
          /\ Len(ReadJsonFile((IF temporary THEN temp ELSE prog).COMMANDS)) < MaxCommands
          /\ RegisterCommandCall(temporary, command)

RevertTemporaryCall(fault, outcome) ==
    LET r == RevertTemporaryConfig(temp, live, fault, outcome) IN
    /\ temp' = r.cp
    /\ live' = r.files
    /\ log' = r.log
    /\ last' = Called("revert_temporary_config", r.res)
    /\ hist' = [hist EXCEPT !.temp = Kept(@, r.cp)]
    /\ ApiStep
    /\ UNCHANGED <<prog, backups>>

RevertTemporary(D) ==
    /\ Alive /\ nops < D
    /\ \E fault \in FaultsOf(temp), outcome \in OutcomesOf({temp}) :
          RevertTemporaryCall(fault, outcome)

RecoveryCall(tfault, pfault, outcome) ==
    LET r == RecoveryRoutine(temp, prog, live, tfault, pfault, outcome) IN
    /\ temp' = r.temp
    /\ prog' = r.prog
    /\ live' = r.files
    /\ log' = r.log
    /\ last' = Called("recovery_routine", r.res)
    /\ hist' = [hist EXCEPT !.temp = Kept(@, r.temp), !.prog = Kept(@, r.prog)]
    /\ ApiStep
    /\ UNCHANGED backups

\* recovery_routine, also the first call of a process started after a crash
Recovery(D) ==
    /\ nops < D
    /\ \E tfault \in FaultsOf(temp), pfault \in FaultsOf(prog),
          outcome \in OutcomesOf({temp, prog}) :
          /\ tfault # NoFault => pfault = NoFault
          /\ RecoveryCall(tfault, pfault, outcome)

FinalizeCall(title, now1, now2, fault) ==
    LET r == FinalizeCheckpoint(prog, backups, title, now1, now2, fault) IN
    /\ prog' = r.prog
    /\ backups' = r.backups
    /\ last' = [op |-> "finalize_checkpoint", res |-> r.res,
                arg |-> IF r.name # <<>> THEN 1 ELSE 0]
    /\ hist' = IF r.name # <<>>
               THEN [hist EXCEPT !.prog = NoHist,
                                 !.fin = WithEntry(@, r.name, hist.prog),
                                 !.latest = r.name]
               ELSE hist
    /\ log' = <<>>
    /\ ApiStep
    /\ UNCHANGED <<live, temp>>

Finalize(D, FF) ==
    /\ Alive /\ nops < D
    /\ \E title \in Titles, fault \in FF, now1 \in Clock, now2 \in Clock :
          /\ fault # "rename1" => now2 = now1
          /\ FinalizeCall(title, now1, now2, fault)

\* finalize_checkpoint with the clock reading any value of C, moving
\* forward, backward or not at all between calls
FinalizeAt(D, FF, C) ==
    /\ Alive /\ nops < D
    /\ \E title \in Titles, fault \in FF, now1 \in C, now2 \in C :
          /\ fault # "rename1" => now2 = now1
          /\ FinalizeCall(title, now1, now2, fault)

FinalizeCrashCall(title, now, fuel) ==
    LET r == CrashInFinalize(prog, backups, title, now, fuel) IN
    /\ prog' = r.prog
    /\ backups' = r.backups
    /\ last' = [op |-> "finalize_checkpoint", res |-> r.res,
                arg |-> IF r.name # <<>> THEN 1 ELSE 0]
    /\ hist' = IF r.name # <<>>
               THEN [hist EXCEPT !.prog = NoHist,
                                 !.fin = WithEntry(@, r.name, hist.prog),
                                 !.latest = r.name]
               ELSE hist
    /\ log' = <<>>
    /\ ApiStep
    /\ UNCHANGED <<live, temp>>

\* finalize_checkpoint of an existing in-progress checkpoint, dying inside
FinalizeCrash(D) ==
    /\ Alive /\ nops < D /\ prog.dir
    /\ \E title \in Titles, now \in Clock, fuel \in FinalizeFuels :
          FinalizeCrashCall(title, now, fuel)

RollbackCall(rollback, fault, hit, outcome) ==
    LET r == RollbackCheckpoints(backups, live, rollback, fault, hit, outcome) IN
    /\ backups' = r.backups
    /\ live' = r.files
    /\ log' = r.log
    /\ last' = [op |-> "rollback_checkpoints", res |-> r.res, arg |-> rollback.v]
    /\ hist' = [hist EXCEPT !.fin = KeptFin(@, r.backups)]
    /\ ApiStep
    /\ UNCHANGED <<temp, prog>>

BackupFaults == UNION { FaultsOf(backups[n]) : n \in DOMAIN backups } \cup {NoFault}

Rollback(D, RA) ==
    /\ Alive /\ nops < D
    /\ \E rollback \in RA, hit \in 1..2, fault \in BackupFaults,
          outcome \in OutcomesOf({ backups[n] : n \in DOMAIN backups }) :
          /\ fault = NoFault => hit = 1
          /\ RollbackCall(rollback, fault, hit, outcome)

\* rollback_checkpoints called with an argument of any type
RollbackRaw(D, RA) ==
    /\ Alive /\ nops < D
    /\ \E raw \in RA, hit \in 1..2, fault \in BackupFaults,
          outcome \in OutcomesOf({ backups[n] : n \in DOMAIN backups }) :
          /\ fault = NoFault => hit = 1
          /\ RollbackCall(PyInt(raw), fault, hit, outcome)

\* register_undo_command with commands of C, up to M in one checkpoint
RegisterCommandOf(D, T, C, M) ==
    /\ Alive /\ nops < D
    /\ \E temporary \in T, command \in C :
          /\ Len(ReadJsonFile((IF temporary THEN temp ELSE prog).COMMANDS)) < M
          /\ RegisterCommandCall(temporary, command)

\* recovery_routine with the commands meeting any outcome of O
RecoveryUnder(D, O) ==
    /\ nops < D
    /\ \E tfault \in FaultsOf(temp), pfault \in FaultsOf(prog), outcome \in O :
          /\ tfault # NoFault => pfault = NoFault
          /\ RecoveryCall(tfault, pfault, outcome)

ViewCall(num) ==
    LET r == ViewConfigChanges(backups, num) IN
    /\ output' = r.output
    /\ last' = [op |-> "view_config_changes", res |-> r.res,
                arg |-> IF num.none THEN 0 ELSE num.v]
    /\ log' = <<>>
    /\ nops' = nops + 1
    /\ UNCHANGED <<live, temp, prog, backups, hist>>

View(D, VA) ==
    /\ Alive /\ nops < D
    /\ \E num \in VA : ViewCall(num)

\* rollback_checkpoints whose first rmtree fails partway
RollbackTorn(D, RA) ==
    /\ Alive /\ nops < D
    /\ \E rollback \in RA : RollbackCall(rollback, TornTree, 1, "ok")

\* another program leaves a file in the backup directory
Stray ==
    /\ Alive
    /\ \E name \in StrayNames \ DOMAIN backups :
          backups' = WithEntry(backups, name, NoDir)
    /\ UNCHANGED <<live, temp, prog, last, log, hist, nops, output>>

(***************************************************************************)
(* Specifications.  Each lets the plugins and the user call one part of    *)
(* the interface, in any order and with any arguments.                     *)
(***************************************************************************)
Uncrashed == {NoCrash}

OneNote == {<<"n">>}

OneFile == SeqsUpTo(Paths, 1)

\* save_files as a set: every order its iteration can take
SetArgs == { s \in NonEmptyFileArgs : Cardinality(Range(s)) = Len(s) }

\* staging and registration
NextStaging ==
    \/ Mutate
    \/ StageTemporary(MaxOps, NonEmptyFileArgs, OneNote, Uncrashed)
    \/ StagePermanent(MaxOps, NonEmptyFileArgs, Notes, Uncrashed)
    \/ RegisterNewFiles(MaxOps, BOOLEAN, OneFile)

SpecStaging == Init /\ [][NextStaging]_vars

\* the in-progress checkpoint, finalize and rollback; one call more
NextFinalize ==
    \/ Mutate
    \/ StagePermanent(MaxOps + 1, SetArgs, Notes, Uncrashed)
    \/ RegisterNewFiles(MaxOps + 1, {FALSE}, OneFile)
    \/ RegisterCommand(MaxOps + 1, {FALSE})
    \/ Finalize(MaxOps + 1, FinalizeFaults)
    \/ Rollback(MaxOps + 1, RollbackArgs)

SpecFinalize == Init /\ [][NextFinalize]_vars

\* the temporary and the in-progress checkpoint and their recovery; one
\* call more
NextRecovery ==
    \/ Mutate
    \/ StageTemporary(MaxOps + 1, SetArgs, OneNote, Uncrashed)
    \/ StagePermanent(MaxOps + 1, SetArgs, OneNote, Uncrashed)
    \/ RegisterNewFiles(MaxOps + 1, BOOLEAN, OneFile)
    \/ RegisterCommand(MaxOps + 1, BOOLEAN)
    \/ RevertTemporary(MaxOps + 1)
    \/ Recovery(MaxOps + 1)

SpecRecovery == Init /\ [][NextRecovery]_vars

\* staging calls that may die at any write, and the recovery that follows
NextCrash ==
    \/ Mutate
    \/ StageTemporary(MaxOps, SetArgs, OneNote, CrashFuels \cup Uncrashed)
    \/ StagePermanent(MaxOps, SetArgs, OneNote, CrashFuels \cup Uncrashed)
    \/ Recovery(MaxOps)

SpecCrash == Init /\ [][NextCrash]_vars

\* finalize calls that fail or die at any write, and the recovery after
NextFinalizeCrash ==
    \/ Mutate
    \/ StagePermanent(MaxOps, SetArgs, Notes, Uncrashed)
    \/ RegisterNewFiles(MaxOps, {FALSE}, OneFile)
    \/ RegisterCommand(MaxOps, {FALSE})
    \/ Finalize(MaxOps, FinalizeFaults)
    \/ FinalizeCrash(MaxOps)
    \/ Recovery(MaxOps)

SpecFinalizeCrash == Init /\ [][NextFinalizeCrash]_vars

\* checkpoints finalized one after another under any clock, and rolled back
NextClock ==
    \/ RegisterCommand(2 * MaxOps, {FALSE})
    \/ FinalizeAt(2 * MaxOps, {"none", "rename1"}, WideClock)
    \/ Rollback(2 * MaxOps, RollbackArgs)

SpecClock == Init /\ [][NextClock]_vars

\* finalized checkpoints rolled back with arguments of every type
NextRollback ==
    \/ Mutate
    \/ StagePermanent(MaxOps + 1, OneFile \ {<<>>}, OneNote, Uncrashed)
    \/ Finalize(MaxOps + 1, {"none"})
    \/ RollbackRaw(MaxOps + 1, RawRollbackArgs)

SpecRollback == Init /\ [][NextRollback]_vars

\* checkpoints of files finalized on both sides of a digit more of the
\* clock, then rolled back
NextOrder ==
    \/ Mutate
    \/ StagePermanent(MaxOps + 2, OneFile \ {<<>>}, OneNote, Uncrashed)
    \/ FinalizeAt(MaxOps + 2, {"none"}, WideClock)
    \/ Rollback(MaxOps + 2, RollbackArgs)

SpecOrder == Init /\ [][NextOrder]_vars

\* checkpoint directories that lack some of their files
NextAbsent ==
    \/ StagePermanent(MaxOps + 1, OneFile \ {<<>>}, Notes, Uncrashed)
    \/ RegisterNewFiles(MaxOps + 1, {FALSE}, OneFile)
    \/ RegisterCommand(MaxOps + 1, {FALSE})
    \/ Finalize(MaxOps + 1, {"none"})
    \/ Recovery(MaxOps + 1)
    \/ Rollback(MaxOps + 1, RollbackArgs)
    \/ RollbackTorn(MaxOps + 1, RollbackArgs)
    \/ View(MaxOps + 1, ViewArgs)

SpecAbsent == Init /\ [][NextAbsent]_vars

\* every operation of the interface; one call more
NextAll ==
    \/ Mutate
    \/ StageTemporary(MaxOps + 1, OneFile \ {<<>>}, OneNote, Uncrashed)
    \/ StagePermanent(MaxOps + 1, OneFile \ {<<>>}, OneNote, Uncrashed)
    \/ RegisterNewFiles(MaxOps + 1, BOOLEAN, OneFile \ {<<>>})
    \/ RegisterCommand(MaxOps + 1, BOOLEAN)
    \/ Finalize(MaxOps + 1, FinalizeFaults)
    \/ RevertTemporary(MaxOps + 1)
    \/ Recovery(MaxOps + 1)
    \/ Rollback(MaxOps + 1, RollbackArgs)
    \/ View(MaxOps + 1, ViewArgs)

SpecAll == Init /\ [][NextAll]_vars

\* one checkpoint with files, new files and two commands, and its recovery
NextEngine ==
    \/ Mutate
    \/ StagePermanent(MaxOps + 2, SetArgs, OneNote, Uncrashed)
    \/ RegisterNewFiles(MaxOps + 2, {FALSE}, OneFile \ {<<>>})
    \/ RegisterCommandOf(MaxOps + 2, {FALSE}, EngineCommands, MaxCommands + 1)
    \/ RecoveryUnder(MaxOps + 2, EngineOutcomes)

SpecEngine == Init /\ [][NextEngine]_vars

\* checkpoints finalized under any clock, stray entries, and the listing
NextView ==
    \/ RegisterCommand(2 * MaxOps, {FALSE})
    \/ FinalizeAt(2 * MaxOps, {"none"}, WideClock)
    \/ Stray
    \/ View(2 * MaxOps, ViewArgs)

SpecView == Init /\ [][NextView]_vars

(***************************************************************************)
(* Claims.                                                                 *)
(***************************************************************************)
PathList(cp) == ReadJsonFile(cp.FILEPATHS)

NewFiles(cp) == ReadJsonFile(cp.NEW_FILES)

\* the paths the checkpoint protects: its path_list and its new_files
Protects(cp) == Range(PathList(cp)) \cup Range(NewFiles(cp))

\* C5: stage_permanent(files, note) fails whenever a path of files is in
\* path_list or new_files of the temporary checkpoint, and then changes
\* nothing: no in-progress directory is created, no backup copy is made,
\* path_list and notes stay as they were.
C5_PermanentOverwriteRejected ==
    [][ \A save_files \in NonEmptyFileArgs, save_notes \in Notes :
          ( /\ StagePermanentCall(save_files, save_notes, NoCrash)
            /\ Range(save_files) \cap Protects(temp) # {} )
          => ( /\ last'.res = "ReverterError"
               /\ prog' = prog
               /\ UNCHANGED <<live, temp, backups>> ) ]_vars

\* stage_permanent was refused although every file could be read, and no
\* in-progress directory exists
C5_Witness ==
    /\ last.op = "add_to_checkpoint" /\ last.res = "ReverterError"
    /\ \A p \in Paths : live[p] # NoFile
    /\ Protects(temp) # {}
    /\ Range(NewFiles(temp)) \ Range(PathList(temp)) # {}
    /\ ~prog.dir

\* the notes of a checkpoint, as the chunks written to CHANGES_SINCE
NotesOf(cp) == cp.CHANGES_SINCE.v

\* C6 (as stated): stage_temporary(files, note) fails, adding no backup and
\* no note to the temporary checkpoint, whenever a path of files is in
\* path_list or new_files of the in-progress checkpoint.
C6_TemporaryOverwriteRejected ==
    [][ \A save_files \in NonEmptyFileArgs, save_notes \in OneNote :
          ( /\ StageTemporaryCall(save_files, save_notes, NoCrash)
            /\ Range(save_files) \cap Protects(prog) # {} )
          => ( /\ last'.res = "ReverterError"
               /\ temp'.slots = temp.slots
               /\ NotesOf(temp') = NotesOf(temp) ) ]_vars

\* C6 (amended): stage_temporary(files, note) never consults the
\* in-progress checkpoint.  It fails exactly when a path of files that is not
\* yet in the temporary path_list cannot be read; otherwise it succeeds, also
\* for paths in path_list or new_files of the in-progress checkpoint: every
\* path of files is then in the temporary path_list, the note is appended,
\* and the in-progress checkpoint is untouched.
C6_TemporaryIgnoresInProgress ==
    [][ \A save_files \in NonEmptyFileArgs, save_notes \in OneNote :
          StageTemporaryCall(save_files, save_notes, NoCrash)
          => LET unreadable ==
                   \E p \in Range(save_files) :
                       p \notin Range(PathList(temp)) /\ live[p] = NoFile
             IN /\ last'.res = IF unreadable THEN "ReverterError" ELSE "ok"
                /\ prog' = prog
                /\ ~unreadable =>
                     /\ Range(save_files) \subseteq Range(PathList(temp'))
                     /\ NotesOf(temp') = NotesOf(temp) \o save_notes ]_vars

\* stage_temporary has just succeeded for a path that the in-progress
\* checkpoint backs up and for one that it lists as a new file
C6_Witness ==
    /\ last.op = "add_to_temp_checkpoint" /\ last.res = "ok"
    /\ Range(PathList(temp)) \cap Range(PathList(prog)) # {}
    /\ Range(PathList(temp)) \cap Range(NewFiles(prog)) # {}

\* C7: no step adds a path to the in-progress checkpoint (to its path_list
\* or to its new_files) in a state where that path is in path_list or
\* new_files of the temporary checkpoint.
C7_NoInProgressOverTemporary ==
    [][ \A p \in Paths :
          ( \/ p \in Range(PathList(prog')) \ Range(PathList(prog))
            \/ p \in Range(NewFiles(prog')) \ Range(NewFiles(prog)) )
          => p \notin Protects(temp) ]_vars

\* the slot that backs up entry i of a path_list
SlotOf(list, i) == SlotName(list[i], i - 1)

NoDuplicates(list) == \A i, j \in 1..Len(list) : list[i] = list[j] => i = j

\* every path_list entry has its backup slot, and no path is listed twice
OneSlotPerEntry(cp) ==
    /\ NoDuplicates(PathList(cp))
    /\ \A i \in 1..Len(PathList(cp)) : SlotOf(PathList(cp), i) \in DOMAIN cp.slots

\* a staging call that returned normally took cp to cq: the entries and
\* slots of cp are kept, each path of save_files not yet listed got one
\* entry and one slot holding its content, nothing else was added
StagedOnce(cp, cq, save_files) ==
    LET old == PathList(cp)
        new == PathList(cq)
        added == (Len(old) + 1)..Len(new)
    IN /\ Len(new) = Len(old) + Cardinality(Range(save_files) \ Range(old))
       /\ SubSeq(new, 1, Len(old)) = old
       /\ Range(new) = Range(old) \cup Range(save_files)
       /\ \A i \in 1..Len(old) : cq.slots[SlotOf(old, i)] = cp.slots[SlotOf(old, i)]
       /\ \A i \in added : cq.slots[SlotOf(new, i)] = live[new[i]]
       /\ (DOMAIN cq.slots) \ (DOMAIN cp.slots) \subseteq { SlotOf(new, i) : i \in added }

\* C8: in every reachable state the path_list of the temporary and of the
\* in-progress checkpoint lists no path twice and every entry has its one
\* backup slot; a staging call that names a path already in path_list, or
\* names a path twice, adds no entry and no slot for it.
C8_OneSlotPerPath ==
    /\ [](OneSlotPerEntry(temp) /\ OneSlotPerEntry(prog))
    /\ [][ \A save_files \in NonEmptyFileArgs, save_notes \in Notes :
            /\ ( StageTemporaryCall(save_files, save_notes, NoCrash)
                 /\ last'.res = "ok" ) => StagedOnce(temp, temp', save_files)
            /\ ( StagePermanentCall(save_files, save_notes, NoCrash)
                 /\ last'.res = "ok" ) => StagedOnce(prog, prog', save_files) ]_vars

\* a path was staged, edited and staged again in the temporary checkpoint,
\* whose single slot for it still holds the first content
C8_Witness ==
    /\ last.op = "add_to_temp_checkpoint" /\ last.res = "ok"
    /\ \E p \in Paths :
          /\ hist.temp.first[p] # None
          /\ hist.temp.lastc[p] # hist.temp.first[p]
          /\ PathList(temp) = <<p>>
          /\ temp.slots = (SlotName(p, 0) :> hist.temp.first[p])

\* a step that is one call of recovery_routine
RecoveryStep == nops' = nops + 1 /\ last'.op = "recovery_routine"

\* the backup copy the checkpoint holds of p
BackupOf(cp, p) ==
    cp.slots[SlotOf(PathList(cp), CHOOSE i \in 1..Len(PathList(cp)) : PathList(cp)[i] = p)]

\* every step logged for the temporary checkpoint precedes every step
\* logged for the in-progress checkpoint
TemporaryFirst(events) ==
    \A i, j \in 1..Len(events) :
        (events[i].dir = TempId /\ events[j].dir = ProgId) => i < j

BothBackUp == Range(PathList(temp)) \cap Range(PathList(prog))

\* C3 (as stated): when the temporary and the in-progress checkpoint both
\* back up a path p, a recovery_routine() that returns has restored the
\* temporary checkpoint completely before any in-progress step, and p then
\* holds the in-progress backup.
C3_InProgressCopyWins ==
    [][ (RecoveryStep /\ last'.res = "ok")
        => /\ TemporaryFirst(log')
           /\ \A p \in BothBackUp : live'[p] = BackupOf(prog, p) ]_vars

\* C3 (amended): as above, and p then holds the in-progress backup unless p
\* is also in new_files of the in-progress checkpoint: then p has been
\* restored and deleted, and does not exist.
C3_TemporaryBeforeInProgress ==
    [][ (RecoveryStep /\ last'.res = "ok")
        => /\ TemporaryFirst(log')
           /\ \A p \in BothBackUp :
                 live'[p] = IF p \in Range(NewFiles(prog)) THEN NoFile
                            ELSE BackupOf(prog, p) ]_vars

\* recovery_routine returned after restoring a path from the temporary
\* backup (B) and then from the in-progress backup (A); the path holds A
C3_Witness ==
    /\ last.op = "recovery_routine" /\ last.res = "ok"
    /\ \E p \in Paths, i, j \in 1..Len(log) :
          /\ i < j
          /\ log[i].ev = "restore" /\ log[i].dir = TempId /\ log[i].arg = <<p, "B">>
          /\ log[j].ev = "restore" /\ log[j].dir = ProgId /\ log[j].arg = <<p, "A">>
          /\ live[p] = "A"

\* C4: if reverting the temporary checkpoint fails inside recovery_routine()
\* (the temporary directory is still there afterwards), recovery_routine()
\* raises and does nothing to the in-progress checkpoint: none of its undo
\* commands is run, none of its files restored or deleted, its directory
\* is as before.
C4_FailedTemporaryStopsRecovery ==
    [][ (RecoveryStep /\ temp.dir /\ temp'.dir)
        => /\ last'.res = "ReverterError"
           /\ prog' = prog
           /\ \A i \in 1..Len(log') : log'[i].dir # ProgId ]_vars

\* recovery_routine raised with the temporary checkpoint in place, and
\* the in-progress checkpoint still holds an undo command and the backup of
\* a file that was edited since
C4_Witness ==
    /\ last.op = "recovery_routine" /\ last.res = "ReverterError"
    /\ temp.dir /\ prog.dir
    /\ ReadJsonFile(prog.COMMANDS) # <<>>
    /\ \E p \in Range(PathList(prog)) : live[p] # BackupOf(prog, p)

\* a step that is rollback_checkpoints(1) returning normally, taken right
\* after a finalize_checkpoint that created a checkpoint
RollbackOfLatest ==
    /\ last.op = "finalize_checkpoint" /\ last.res = "ok" /\ last.arg = 1
    /\ nops' = nops + 1
    /\ last' = [op |-> "rollback_checkpoints", res |-> "ok", arg |-> 1]

Finalized(title, notes) ==
    /\ prog' = NoDir
    /\ \E name \in DOMAIN backups' :
          /\ name \notin DOMAIN backups
          /\ DOMAIN backups' = DOMAIN backups \cup {name}
          /\ \A n \in DOMAIN backups : backups'[n] = backups[n]
          /\ backups'[name].dir
          /\ backups'[name].FILEPATHS = prog.FILEPATHS
          /\ backups'[name].NEW_FILES = prog.NEW_FILES
          /\ backups'[name].COMMANDS = prog.COMMANDS
          /\ backups'[name].slots = prog.slots
          /\ NotesOf(backups'[name]) = TitleLine(title) \o notes

\* a step that is one call of finalize_checkpoint
FinalizeStep == nops' = nops + 1 /\ last'.op = "finalize_checkpoint"

\* the step is finalize_checkpoint(title)
FinalizeWith(title) ==
    \E now1 \in Clock, now2 \in Clock, fault \in FinalizeFaults :
        FinalizeCall(title, now1, now2, fault)

\* C9 (as stated): when an in-progress checkpoint exists and finalize(title)
\* succeeds, the in-progress directory is gone and the backup root holds
\* exactly one more checkpoint, with the lists and backup copies of the
\* former in-progress checkpoint; its notes are the title line followed by
\* the former notes.
C9_FinalizeKeepsNotes ==
    [][ (FinalizeStep /\ prog.dir /\ last'.res = "ok")
        => \A title \in Titles :
             FinalizeWith(title) => Finalized(title, NotesOf(prog)) ]_vars

\* C9 (amended): the same, with notes that are the title line followed by
\* the former notes, or by the placeholder line "No changes" when the
\* in-progress checkpoint had no notes file.
C9_FinalizeMovesCheckpoint ==
    [][ (FinalizeStep /\ prog.dir /\ last'.res = "ok")
        => \A title \in Titles :
             FinalizeWith(title)
             => Finalized(title, IF prog.CHANGES_SINCE.st = "missing"
                                 THEN NoChanges ELSE NotesOf(prog)) ]_vars

\* finalize has just moved a checkpoint with a backup copy, a new file and
\* a note into the backup root
C9_Witness ==
    /\ last = [op |-> "finalize_checkpoint", res |-> "ok", arg |-> 1]
    /\ ~prog.dir
    /\ hist.latest \in DOMAIN backups
    /\ PathList(backups[hist.latest]) # <<>>
    /\ NewFiles(backups[hist.latest]) # <<>>
    /\ NotesOf(backups[hist.latest]) = TitleLine("t") \o <<"n">>

\* C10: a finalize(title) that fails leaves the in-progress checkpoint
\* exactly as it was before the call: same lists, backup copies and notes,
\* no extra file; and the backup root as it was.
C10_FailedFinalizeLeavesIntact ==
    [][ (FinalizeStep /\ last'.res = "ReverterError")
        => (prog' = prog /\ backups' = backups) ]_vars

\* what a recovery owes a path: the content it had when it was first
\* staged into the in-progress checkpoint, else into the temporary one
\* (None: no staging call that returned has protected the path)
FirstStaged(p) ==
    IF hist.prog.first[p] # None THEN hist.prog.first[p] ELSE hist.temp.first[p]

\* C2: after staging calls and edits of the staged files, a crash at any
\* write inside a staging call, followed by a recovery_routine() that
\* returns, leaves every file that a checkpoint protected before the
\* interrupted call with the content it had when it was first staged; no
\* checkpoint is removed without its files having been restored.
C2_CrashThenRecoveryRestores ==
    [][ (RecoveryStep /\ last.res = "crash" /\ last'.res = "ok")
        => \A p \in Paths : FirstStaged(p) # None => live'[p] = FirstStaged(p) ]_vars

\* what a checkpoint is made of, its notes apart
Staging(cp) ==
    [FILEPATHS |-> cp.FILEPATHS, NEW_FILES |-> cp.NEW_FILES,
     COMMANDS |-> cp.COMMANDS, slots |-> cp.slots]

\* the staged checkpoint is still, whole, the in-progress directory
StillInProgress ==
    /\ prog'.dir
    /\ Staging(prog') = Staging(prog)
    /\ backups' = backups

\* the staged checkpoint is, whole, one new directory of the backup root
NowFinalized ==
    /\ prog' = NoDir
    /\ \E name \in DOMAIN backups' :
          /\ DOMAIN backups' = DOMAIN backups \cup {name}
          /\ name \notin DOMAIN backups
          /\ backups'[name].dir
          /\ Staging(backups'[name]) = Staging(prog)
          /\ \A n \in DOMAIN backups : backups'[n] = backups[n]

\* C11: wherever a finalize call of an existing in-progress checkpoint
\* stops - it returns, it raises, or the process dies after any of its
\* writes - the staged checkpoint is either wholly the in-progress directory
\* or wholly one new finalized directory, never both, neither or split.
C11_FinalizeIsAllOrNothing ==
    [][ (FinalizeStep /\ prog.dir)
        => ( (StillInProgress \/ NowFinalized)
             /\ ~(StillInProgress /\ NowFinalized) ) ]_vars

\* the process died inside finalize after writing the title to
\* CHANGES_SINCE.tmp: the checkpoint, with a backup copy, is in progress
C11_Witness ==
    /\ last.op = "finalize_checkpoint" /\ last.res = "crash"
    /\ prog.dir /\ PathList(prog) # <<>>
    /\ prog.CHANGES_TMP = [st |-> "ok", v |-> TitleLine("t")]

\* C12: every successful finalize names the new checkpoint with an
\* identifier distinct from, and numerically strictly greater than, every
\* identifier already in the backup root, whatever the clock reads.
C12_IdentifiersIncrease ==
    [][ (FinalizeStep /\ last'.res = "ok" /\ last'.arg = 1)
        => \A new \in (DOMAIN backups') \ (DOMAIN backups), old \in DOMAIN backups :
             new # old /\ Float(old) < Float(new) ]_vars

\* a step that is one call of rollback_checkpoints
RollbackStep == nops' = nops + 1 /\ last'.op = "rollback_checkpoints"

Min(a, b) == IF a < b THEN a ELSE b

\* the checkpoints a step removed from the backup root
Removed == (DOMAIN backups) \ (DOMAIN backups')

\* C13: rollback(count) with count >= 0 in which every recovery succeeds
\* removes exactly the min(count, k) checkpoints with the largest
\* identifiers of the k in the backup root and leaves the others unchanged;
\* it returns without error also when count > k or k = 0.
C13_RollbackRemovesNewest ==
    [][ \A rollback \in RollbackArgs, outcome \in Outcomes :
          ( /\ RollbackStep
            /\ rollback.int /\ rollback.v >= 0
            /\ RollbackCall(rollback, NoFault, 1, outcome) )
          => /\ last'.res = "ok"
             /\ DOMAIN backups' \subseteq DOMAIN backups
             /\ Cardinality(Removed) = Min(rollback.v, Cardinality(DOMAIN backups))
             /\ \A gone \in Removed, kept \in DOMAIN backups' :
                   Float(kept) < Float(gone)
             /\ \A kept \in DOMAIN backups' : backups'[kept] = backups[kept] ]_vars

\* the argument is negative, or is no integer: a float with a fraction, or
\* a text that is no number (the str of an int counts as that int)
NotACount(raw) ==
    \/ raw.kind \in {"int", "str", "float"} /\ raw.n < 0
    \/ raw.kind = "float" /\ raw.n % 2 = 1
    \/ raw.kind = "text"

\* C14: rollback(count) with a negative count, or with a value that is not
\* an integer, fails with an error and changes nothing: no checkpoint is
\* recovered or removed and no live file is modified.
C14_BadCountRejected ==
    [][ \A raw \in RawRollbackArgs :
          ( /\ RollbackStep
            /\ NotACount(raw)
            /\ \E hit \in 1..2, fault \in Faults, outcome \in Outcomes :
                  RollbackCall(PyInt(raw), fault, hit, outcome) )
          => /\ last'.res = "ReverterError"
             /\ log' = <<>>
             /\ UNCHANGED <<live, backups>> ]_vars

\* a step that is recovery_routine or revert_temporary_config on a store
\* whose only checkpoint in the making is the temporary one, returning
RevertsTemporaryOnly ==
    /\ nops' = nops + 1
    /\ last'.op \in {"recovery_routine", "revert_temporary_config"}
    /\ last'.res = "ok"
    /\ temp.dir /\ ~prog.dir

\* a step that is revert_temporary_config with no temporary directory
RevertsNothing ==
    /\ nops' = nops + 1
    /\ last'.op = "revert_temporary_config"
    /\ ~temp.dir

\* C15 (as stated): recovery_routine() and revert_temporary() on a store
\* with only a temporary checkpoint restore every file of its path_list to
\* the content it had when staged and leave no temporary directory; with no
\* temporary directory revert_temporary() does nothing and returns.
C15_TemporaryRestored ==
    [][ /\ RevertsTemporaryOnly
          => /\ ~temp'.dir
             /\ \A p \in Paths :
                   hist.temp.first[p] # None => live'[p] = hist.temp.first[p]
        /\ RevertsNothing
          => (last'.res = "ok" /\ log' = <<>> /\ UNCHANGED <<live, temp, prog, backups>>)
      ]_vars

\* C15 (amended): every file of the path_list holds the content it had when
\* it was first staged into the temporary checkpoint, unless it is also in
\* new_files of the temporary checkpoint: then it has been deleted.
C15_TemporaryRestoredOrDeleted ==
    [][ /\ RevertsTemporaryOnly
          => /\ temp' = NoDir
             /\ Range(PathList(temp)) = { p \in Paths : hist.temp.first[p] # None }
             /\ \A p \in Range(PathList(temp)) :
                   live'[p] = IF p \in Range(NewFiles(temp)) THEN NoFile
                              ELSE hist.temp.first[p]
        /\ RevertsNothing
          => (last'.res = "ok" /\ log' = <<>> /\ UNCHANGED <<live, temp, prog, backups>>)
      ]_vars

\* revert_temporary_config has just returned: it copied A back to a file
\* and removed the temporary directory; nothing is in progress
C15_Witness ==
    /\ last = Called("revert_temporary_config", "ok")
    /\ ~temp.dir /\ ~prog.dir
    /\ \E p \in Paths, i, j \in 1..Len(log) :
          /\ i < j
          /\ log[i] = Event("restore", TempId, <<p, "A">>)
          /\ log[j] = Event("rmtree", TempId, <<>>)
          /\ live[p] = "A"

\* C16: no operation other than rollback changes an existing finalized
\* checkpoint: after a step of any other operation (staging, registration,
\* finalize, revert_temporary_config, recovery_routine,
\* view_config_changes, a plugin's edit) every finalized checkpoint is still
\* there under its name with the contents it had.
C16_FinalizedUnchanged ==
    [][ (last'.op # "rollback_checkpoints" \/ nops' = nops)
          => \A n \in DOMAIN backups :
                n \in DOMAIN backups' /\ backups'[n] = backups[n] ]_vars

\* a second checkpoint has been finalized next to an existing one
C16_Witness ==
    /\ last.op = "finalize_checkpoint" /\ last.res = "ok" /\ last.arg = 1
    /\ Cardinality(DOMAIN backups) = 2
    /\ hist.latest \in DOMAIN backups

\* view_config_changes has just returned normally
ViewStep == nops' = nops + 1 /\ last'.op = "view_config_changes" /\ last'.res = "ok"

Listed(out) == { out[i].bkup : i \in 1..Len(out) }

\* C17: when every entry of the backup directory is a timestamp,
\* view_config_changes lists the checkpoints in strictly descending order of
\* their timestamps, and with a limit n >= 1 it lists exactly the min(n, k)
\* checkpoints with the greatest timestamps of the k that exist.
C17_ListedMostRecentFirst ==
    [][ (ViewStep /\ \A n \in DOMAIN backups : IsFloat(n))
          => /\ \A i, j \in 1..Len(output') :
                   i < j => Float(output'[i].bkup) > Float(output'[j].bkup)
             /\ Listed(output') \subseteq DOMAIN backups
             /\ Len(output') = IF last'.arg >= 1
                               THEN Min(last'.arg, Cardinality(DOMAIN backups))
                               ELSE Cardinality(DOMAIN backups)
             /\ \A l \in Listed(output'), u \in (DOMAIN backups) \ Listed(output') :
                   Float(l) > Float(u) ]_vars

\* C18: whenever some entry of the backup directory is not a timestamp,
\* view_config_changes fails with an error, whatever its limit.
C18_StrayEntryRejected ==
    [][ ( /\ nops' = nops + 1
          /\ last'.op = "view_config_changes"
          /\ \E n \in DOMAIN backups : ~IsFloat(n) )
          => last'.res # "ok" ]_vars

\* the in-progress directory as finalize_checkpoint(title) renames it
Source(title) == AddTitle(EnsureNotes(prog), title, "none").cp

\* the name _checkpoint_timestamp gives when the clock reads now
Destination(now) == CheckpointTimestamp(DOMAIN backups, now)

TemporaryStagingOps ==
    {"add_to_temp_checkpoint", "register_file_creation", "register_undo_command"}

PermanentStagingOps ==
    {"add_to_checkpoint", "register_file_creation", "register_undo_command"}

\* C20: the checkpoint directories change state only as follows.  The
\* temporary directory appears by a staging or registration call and
\* disappears by a recovery (recovery_routine, revert_temporary_config),
\* which adds nothing to the backup directory.  The in-progress directory
\* appears by a staging or registration call and disappears by
\* recovery_routine or by the rename of finalize_checkpoint, which makes it
\* one new finalized checkpoint.  A finalized checkpoint appears only by that
\* rename, which leaves the temporary checkpoint alone, and disappears only
\* by rollback_checkpoints.  finalize_checkpoint with no in-progress
\* directory changes no directory.
C20_SlotTransitions ==
    [][ /\ (~temp.dir /\ temp'.dir) => last'.op \in TemporaryStagingOps
        /\ (temp.dir /\ ~temp'.dir)
              => /\ last'.op \in {"recovery_routine", "revert_temporary_config"}
                 /\ backups' = backups
        /\ (~prog.dir /\ prog'.dir) => last'.op \in PermanentStagingOps
        /\ (prog.dir /\ ~prog'.dir)
              => \/ last'.op = "recovery_routine" /\ backups' = backups
                 \/ last'.op = "finalize_checkpoint" /\ NowFinalized
        /\ (DOMAIN backups' # DOMAIN backups)
              => \/ /\ last'.op = "rollback_checkpoints"
                    /\ DOMAIN backups' \subseteq DOMAIN backups
                 \/ /\ last'.op = "finalize_checkpoint"
                    /\ prog.dir /\ NowFinalized /\ temp' = temp
        /\ (FinalizeStep /\ ~prog.dir) => UNCHANGED <<live, temp, prog, backups>> ]_vars

\* finalize_checkpoint has been called with no in-progress directory, next
\* to a temporary checkpoint and a finalized one
C20_Witness ==
    /\ last = [op |-> "finalize_checkpoint", res |-> "ok", arg |-> 0]
    /\ ~prog.dir /\ temp.dir
    /\ DOMAIN backups # {}

CommandList(cp) == ReadJsonFile(cp.COMMANDS)

\* the event e is the j-th step of the recovery of cp: the commands in the
\* order of registration, the restores in the order of FILEPATHS, the
\* deletions in the order of NEW_FILES, the removal of the directory
PlannedStep(e, cp, j) ==
    LET nc == Len(CommandList(cp))
        np == Len(PathList(cp))
        nn == Len(NewFiles(cp))
    IN IF j <= nc
       THEN e.ev \in {"cmd", "cmd_failed"} /\ e.arg = CommandList(cp)[j]
       ELSE IF j <= nc + np
       THEN e.ev = "restore" /\ e.arg[1] = PathList(cp)[j - nc]
       ELSE IF j <= nc + np + nn
       THEN e.ev \in {"delete", "not_found"} /\ e.arg = NewFiles(cp)[j - nc - np]
       ELSE e.ev = "rmtree"

PlanLength(cp) == Len(CommandList(cp)) + Len(PathList(cp)) + Len(NewFiles(cp)) + 1

\* recovery_routine has run on an in-progress checkpoint alone
RecoversInProgress ==
    /\ nops' = nops + 1
    /\ last'.op = "recovery_routine"
    /\ prog.dir /\ ~temp.dir

\* C21: the recovery of a checkpoint performs its steps in this order: every
\* undo command in the order of registration, every restore in the order of
\* path_list, every deletion of new_files, the removal of the directory; a
\* recovery that fails has performed a prefix of these steps, one that
\* succeeds all of them.
C21_RecoveryOrder ==
    [][ RecoversInProgress
          => /\ Len(log') <= PlanLength(prog)
             /\ \A j \in 1..Len(log') : PlannedStep(log'[j], prog, j)
             /\ last'.res = "ok" => Len(log') = PlanLength(prog) ]_vars

\* a recovery has run two commands, restored two files, deleted a new file
\* and removed the directory
C21_Witness ==
    /\ last = Called("recovery_routine", "ok")
    /\ Len(log) = 6
    /\ log[1].ev = "cmd_failed" /\ log[2].ev = "cmd" /\ log[1].arg # log[2].arg
    /\ log[3].ev = "restore" /\ log[4].ev = "restore"
    /\ log[5].ev = "delete"
    /\ log[6].ev = "rmtree"

\* the environment makes the restore of the path at index k fail
RestoreFault(k) == [at |-> "restore", k |-> k]

\* C22: when the restore of a path of path_list fails, recovery raises at
\* once: the paths before it have been restored, no later path is restored,
\* no path of new_files is deleted, and the checkpoint directory is left as
\* it was, with its lists and backup copies.
C22_FailedRestoreStops ==
    [][ RecoversInProgress
          => \A k \in 0..(Len(PathList(prog)) - 1), outcome \in EngineOutcomes :
                RecoveryCall(NoFault, RestoreFault(k), outcome)
                => /\ last'.res = "ReverterError"
                   /\ prog' = prog
                   /\ \A p \in Paths :
                         live'[p] = IF \E i \in 1..k : PathList(prog)[i] = p
                                    THEN BackupOf(prog, p) ELSE live[p] ]_vars

\* the restore of the second of two paths has failed: the first is
\* restored, the second and the new file are as they were
C22_Witness ==
    /\ last = Called("recovery_routine", "ReverterError")
    /\ prog.dir /\ Len(PathList(prog)) = 2
    /\ Len(log) = Len(CommandList(prog)) + 1
    /\ log[Len(log)].ev = "restore"
    /\ live[PathList(prog)[2]] # BackupOf(prog, PathList(prog)[2])
    /\ \E p \in Range(NewFiles(prog)) : live[p] # NoFile

\* an undo command of the step failed
CommandFailed == \E j \in 1..Len(log') : log'[j].ev = "cmd_failed"

\* C23: whenever an undo command, a restore or a deletion fails, the
\* checkpoint directory still exists after the recovery call: a directory is
\* removed only by a recovery whose commands, restores and deletions all
\* completed without failure.
C23_FailureKeepsDirectory ==
    [][ (RecoversInProgress /\ (CommandFailed \/ last'.res # "ok")) => prog'.dir ]_vars

\* what the recovery of cp leaves of the files: new files deleted, staged
\* files as their backup copies
Recovered(cp, files) ==
    [p \in Paths |->
        IF p \in Range(NewFiles(cp)) THEN NoFile
        ELSE IF p \in Range(PathList(cp)) THEN BackupOf(cp, p)
        ELSE files[p]]

\* C24: the failure of an undo command never stops recovery: whatever the
\* commands do, when no restore, deletion or removal fails every command of
\* the list is run, the failed ones included and those after them, every
\* path of path_list is restored, every existing path of new_files is
\* deleted and the directory is removed.
C24_FailedCommandGoesOn ==
    [][ RecoversInProgress
          => \A outcome \in EngineOutcomes :
                RecoveryCall(NoFault, NoFault, outcome)
                => /\ last'.res = "ok"
                   /\ Len(log') = PlanLength(prog)
                   /\ \A j \in 1..Len(log') : PlannedStep(log'[j], prog, j)
                   /\ \A k \in 1..Len(CommandList(prog)) :
                         log'[k].ev = IF RunScript(outcome, k) = "ok"
                                      THEN "cmd" ELSE "cmd_failed"
                   /\ live' = Recovered(prog, live)
                   /\ prog' = NoDir ]_vars

\* the first command failed; the second was run, a file was restored to
\* other content, a new file was deleted and the directory removed
C24_Witness ==
    /\ last = Called("recovery_routine", "ok")
    /\ ~prog.dir
    /\ Len(log) >= 5
    /\ log[1].ev = "cmd_failed" /\ log[2].ev = "cmd"
    /\ \E j \in 3..Len(log) : log[j].ev = "restore" /\ log[j].arg[2] = "A"
    /\ \E j \in 3..Len(log) : log[j].ev = "delete" /\ live[log[j].arg] = NoFile

\* C25: the recovery of a checkpoint ends with an error when one of its undo
\* commands cannot be launched, and a non-zero exit status alone does not
\* make it fail.
C25_LaunchFailureReported ==
    [][ (RecoversInProgress /\ CommandList(prog) # <<>>)
          => \A outcome \in EngineOutcomes :
                RecoveryCall(NoFault, NoFault, outcome)
                => IF outcome \in {"launch", "launch1"}
                   THEN last'.res # "ok"
                   ELSE last'.res = "ok" ]_vars

\* the path exists when the deletions of the recovery of cp begin
ExistsAfterRestore(cp, files, p) == p \in Range(PathList(cp)) \/ files[p] # NoFile

\* C26: after a successful recovery no path of new_files exists; a listed
\* path that did not exist does not make the recovery fail and does not stop
\* the deletions after it: every listed path that exists is deleted, every
\* other one is reported as not found.
C26_NewFilesDeleted ==
    [][ RecoversInProgress
          => /\ last'.res = "ok" => \A p \in Range(NewFiles(prog)) : live'[p] = NoFile
             /\ \A outcome \in EngineOutcomes :
                   RecoveryCall(NoFault, NoFault, outcome)
                   => /\ last'.res = "ok"
                      /\ \A i \in 1..Len(NewFiles(prog)) :
                            LET e == log'[Len(CommandList(prog)) + Len(PathList(prog)) + i]
                            IN /\ e.arg = NewFiles(prog)[i]
                               /\ e.ev = IF ExistsAfterRestore(prog, live, e.arg)
                                         THEN "delete" ELSE "not_found" ]_vars

\* the first new file was not found, the second was deleted after it
C26_Witness ==
    /\ last = Called("recovery_routine", "ok")
    /\ ~prog.dir
    /\ \E j \in 1..(Len(log) - 1) :
          /\ log[j].ev = "not_found"
          /\ log[j + 1].ev = "delete"
          /\ live[log[j].arg] = NoFile /\ live[log[j + 1].arg] = NoFile

\* the entries of the path_list of cp and their backup slots are those of cq
SlotsKept(cp, cq) ==
    \A i \in 1..Len(PathList(cp)) :
        /\ i <= Len(PathList(cq))
        /\ PathList(cq)[i] = PathList(cp)[i]
        /\ SlotOf(PathList(cp), i) \in DOMAIN cq.slots
        /\ cq.slots[SlotOf(PathList(cp), i)] = cp.slots[SlotOf(PathList(cp), i)]

\* the checkpoint directory an event of the log is about
DirOf(e) == IF e.dir = TempId THEN temp ELSE prog

HistOf(e) == IF e.dir = TempId THEN hist.temp ELSE hist.prog

\* C27: once a path is in the path_list of a checkpoint its backup slot
\* never changes while the checkpoint directory exists, whatever is staged
\* later and whatever the file then holds: the slot holds the content of the
\* first staging of the path, and that is the content recovery copies back.
C27_EarliestCopyKept ==
    /\ [][ /\ (temp.dir /\ temp'.dir) => SlotsKept(temp, temp')
           /\ (prog.dir /\ prog'.dir) => SlotsKept(prog, prog') ]_vars
    /\ [](\A p \in Paths :
            /\ p \in Range(PathList(temp)) => BackupOf(temp, p) = hist.temp.first[p]
            /\ p \in Range(PathList(prog)) => BackupOf(prog, p) = hist.prog.first[p])
    /\ [][ RecoveryStep
             => \A j \in 1..Len(log') :
                   log'[j].ev = "restore"
                   => log'[j].arg[2] = HistOf(log'[j]).first[log'[j].arg[1]] ]_vars

\* a file of the in-progress checkpoint was edited and staged again, with
\* another file: its slot still holds the first content, the file another
C27_Witness ==
    /\ last = Called("add_to_checkpoint", "ok")
    /\ Len(PathList(prog)) = 2
    /\ \E p \in Range(PathList(prog)) :
          /\ hist.prog.lastc[p] # hist.prog.first[p]
          /\ BackupOf(prog, p) = hist.prog.first[p]
          /\ live[p] # hist.prog.first[p]

\* entry i of the path_list of cp has the slot <base name>_<i>, holding what
\* the path held when it was first staged (history h); no path is listed twice
IndexedBackups(cp, h) ==
    /\ NoDuplicates(PathList(cp))
    /\ \A i \in 1..Len(PathList(cp)) :
          /\ SlotName(PathList(cp)[i], i - 1) \in DOMAIN cp.slots
          /\ cp.slots[SlotName(PathList(cp)[i], i - 1)] = h.first[PathList(cp)[i]]

\* the path_list of cq is that of cp followed by paths not in it
Extends(cp, cq) ==
    /\ Len(PathList(cp)) <= Len(PathList(cq))
    /\ SubSeq(PathList(cq), 1, Len(PathList(cp))) = PathList(cp)

\* C28: in every reachable state of the temporary and of the in-progress
\* checkpoint, entry i of path_list has the slot <base name>_<i>, which holds
\* the content the path had when it was staged, and while the directory
\* exists the list only grows at its end, so that entry i is the i-th path
\* added - also for paths with one base name and after a staging call that
\* failed after some of its copies.
C28_IndexIsStable ==
    /\ [](IndexedBackups(temp, hist.temp) /\ IndexedBackups(prog, hist.prog))
    /\ [][ /\ (temp.dir /\ temp'.dir) => Extends(temp, temp')
           /\ (prog.dir /\ prog'.dir) => Extends(prog, prog')
           /\ ( /\ last'.op \in {"add_to_checkpoint", "add_to_temp_checkpoint"}
                /\ last'.res # "ok" )
                 => (PathList(temp') = PathList(temp) /\ PathList(prog') = PathList(prog)) ]_vars

\* two paths with one base name are listed, their slots hold different
\* contents
C28_Witness ==
    /\ last.op \in {"add_to_checkpoint", "add_to_temp_checkpoint"} /\ last.res = "ok"
    /\ \E cp \in {temp, prog} :
          /\ Len(PathList(cp)) = 2
          /\ Basename(PathList(cp)[1]) = Basename(PathList(cp)[2])
          /\ cp.slots[SlotName(PathList(cp)[1], 0)] # cp.slots[SlotName(PathList(cp)[2], 1)]

\* C29: the names of the finalized checkpoints sort as strings in the order
\* they sort as numbers, so the last name of the sorted listing, taken by
\* _checkpoint_timestamp as the maximum and by rollback_checkpoints as the
\* newest, is the numerically largest identifier.
C29_StringOrderIsNumeric ==
    /\ \A a, b \in DOMAIN backups : StrLess(a, b) <=> Float(a) < Float(b)
    /\ (DOMAIN backups # {})
          => \A o \in DOMAIN backups : Float(o) <= Float(SortedLast(DOMAIN backups))

\* the checkpoint an event of rollback belongs to, as a number
IdOf(e) == Float(e.dir.name)

\* the oldest of the checkpoints a step removed that back up path p
OldestOf(p) ==
    CHOOSE n \in Removed :
       /\ p \in Range(PathList(backups[n]))
       /\ \A m \in Removed :
             p \in Range(PathList(backups[m])) => Float(n) <= Float(m)

\* C30: rollback recovers the checkpoints one at a time in strictly
\* descending order of their identifiers, each one recovered and removed
\* before the next begins; a file backed up by several of the checkpoints
\* rolled back ends with the content backed up by the oldest of them.
C30_RollbackNewestFirst ==
    [][ (RollbackStep /\ last'.res = "ok")
        => /\ \A i, j \in 1..Len(log') : i < j => IdOf(log'[j]) <= IdOf(log'[i])
           /\ \A i \in 1..Len(log') :
                 (i = Len(log') \/ IdOf(log'[i + 1]) # IdOf(log'[i]))
                    <=> log'[i].ev = "rmtree"
           /\ { log'[i].dir.name : i \in 1..Len(log') } = Removed
           /\ \A p \in Paths :
                 (\E n \in Removed : p \in Range(PathList(backups[n])))
                    => live'[p] = BackupOf(backups[OldestOf(p)], p) ]_vars

\* a step that is one call of the staging operation op
StagingStep(op) == nops' = nops + 1 /\ last'.op = op

\* a file of save_files that the call must copy cannot be read
FailsBackingUp(cp, save_files) ==
    \E i \in 1..Len(save_files) :
       /\ NeedsBackup(save_files[i], ReadJsonFile(cp.FILEPATHS))
       /\ live[save_files[i]] = NoFile

NothingRecorded(cp, cq) ==
    /\ cq.FILEPATHS = cp.FILEPATHS
    /\ cq.CHANGES_SINCE = cp.CHANGES_SINCE

\* C31: a staging call that fails while backing up one of its files raises
\* an error and leaves FILEPATHS and the notes of its checkpoint as they
\* were, also when copies of earlier files of the call were written.
C31_FailedStagingRecordsNothing ==
    [][ /\ \A save_files \in NonEmptyFileArgs, save_notes \in Notes :
              ( /\ StagingStep("add_to_checkpoint")
                /\ FailsBackingUp(prog, save_files)
                /\ ~CheckTempfileSaves(temp, save_files)
                /\ StagePermanentCall(save_files, save_notes, NoCrash) )
              => (last'.res = "ReverterError" /\ NothingRecorded(prog, prog'))
        /\ \A save_files \in NonEmptyFileArgs, save_notes \in Notes :
              ( /\ StagingStep("add_to_temp_checkpoint")
                /\ FailsBackingUp(temp, save_files)
                /\ StageTemporaryCall(save_files, save_notes, NoCrash) )
              => (last'.res = "ReverterError" /\ NothingRecorded(temp, temp')) ]_vars

\* a call failed at its second file after it copied its first
C31_Witness ==
    /\ last.op \in {"add_to_checkpoint", "add_to_temp_checkpoint"}
    /\ last.res = "ReverterError"
    /\ \E cp \in {temp, prog} :
          /\ cp.dir /\ DOMAIN cp.slots # {}
          /\ Len(ReadJsonFile(cp.FILEPATHS)) < Cardinality(DOMAIN cp.slots)
          /\ cp.CHANGES_SINCE = NoText

\* every file a call of add_to_checkpoint must copy can be read, and the
\* temporary checkpoint protects none of them
CanStage(save_files) ==
    /\ ~CheckTempfileSaves(temp, save_files)
    /\ \A i \in 1..Len(save_files) :
          NeedsBackup(save_files[i], ReadJsonFile(prog.FILEPATHS))
             => live[save_files[i]] # NoFile

\* C32: a checkpoint directory that lacks FILEPATHS, NEW_FILES, COMMANDS
\* or CHANGES_SINCE makes no staging, recovery, rollback or listing fail:
\* a call in which no file operation fails and whose arguments are valid
\* succeeds whichever of the four files are absent.
C32_AbsentFilesAreEmpty ==
    [][ /\ \A save_files \in NonEmptyFileArgs, save_notes \in Notes :
              ( /\ StagingStep("add_to_checkpoint")
                /\ CanStage(save_files)
                /\ StagePermanentCall(save_files, save_notes, NoCrash) )
              => last'.res = "ok"
        /\ (RecoveryStep /\ RecoveryCall(NoFault, NoFault, "ok")) => last'.res = "ok"
        /\ \A rollback \in RollbackArgs :
              ( /\ RollbackStep
                /\ rollback.int /\ rollback.v >= 0
                /\ RollbackCall(rollback, NoFault, 1, "ok") )
              => last'.res = "ok"
        /\ ( /\ nops' = nops + 1
             /\ last'.op = "view_config_changes"
             /\ \A n \in DOMAIN backups : IsFloat(n) )
              => last'.res = "ok" ]_vars

\* FILEPATHS of the checkpoint exists and json cannot decode it
Undecodable(cp) == cp.dir /\ cp.FILEPATHS.st = "bad"

\* C33: a list file that exists but cannot be decoded is not read as an
\* empty list: recovery of a checkpoint whose FILEPATHS is undecodable
\* reports a failure, unlike the recovery of one without FILEPATHS, and
\* leaves the checkpoint directory, whose files it has not restored.
C33_UndecodableIsNotEmpty ==
    [][ RecoveryStep
        => /\ (Undecodable(temp) \/ Undecodable(prog)) => last'.res # "ok"
           /\ Undecodable(temp) => temp'.dir
           /\ Undecodable(prog) => prog'.dir ]_vars

\* C34: the notes of a checkpoint a successful finalize has made hold text
\* after the title line; they are the title line and the placeholder note
\* whenever no note text was appended to the in-progress checkpoint.
C34_NotesNeverEmpty ==
    [][ (FinalizeStep /\ last'.res = "ok" /\ last'.arg = 1)
        => \A new \in (DOMAIN backups') \ (DOMAIN backups), title \in Titles :
              /\ Len(NotesOf(backups'[new])) > Len(TitleLine(title))
              /\ NotesOf(prog) = <<>>
                    => NotesOf(backups'[new]) = TitleLine(title) \o NoChanges ]_vars

Touched == { log'[i].dir.name : i \in 1..Len(log') }

\* rollback stopped at checkpoint f: f is still in the backup root, what
\* was removed is newer than f, and what is older than f is as it was
StoppedAt(f) ==
    /\ f \in DOMAIN backups'
    /\ Touched \subseteq Removed \cup {f}
    /\ \A n \in Removed : Float(f) < Float(n)
    /\ \A n \in DOMAIN backups :
          Float(n) < Float(f)
             => n \in DOMAIN backups' /\ backups'[n] = backups[n] /\ n \notin Touched

\* C36: when the recovery of a checkpoint fails during rollback(count),
\* rollback raises at once: the failing checkpoint stays in the backup
\* root and no older checkpoint is recovered or removed, whatever is left
\* of count.
C36_FailedRollbackStops ==
    [][ \A rollback \in RollbackArgs, hit \in 1..2, fault \in Faults,
           outcome \in Outcomes :
          ( /\ RollbackStep
            /\ rollback.int /\ rollback.v >= 0
            /\ RollbackCall(rollback, fault, hit, outcome)
            /\ last'.res # "ok" )
          => /\ last'.res = "ReverterError"
             /\ Cardinality(Removed) < rollback.v
             /\ \E f \in DOMAIN backups : StoppedAt(f) ]_vars

\* the undo commands of checkpoint dirid that the events of l show as run
Ran(l, dirid) ==
    { l[i].arg : i \in { j \in 1..Len(l) : l[j].ev = "cmd" /\ l[j].dir = dirid } }

\* C37: a recovery that follows a failed recovery of the same checkpoint
\* runs none of the undo commands the failed one has run: over all the
\* attempts each registered command is executed at most once.
C37_CommandsRunOnce ==
    [][ ( /\ RecoveryStep
          /\ last.op = "recovery_routine" /\ last.res = "ReverterError" )
        => \A dirid \in {TempId, ProgId} : Ran(log, dirid) \cap Ran(log', dirid) = {} ]_vars

\* the title lines finalize_checkpoint can write
TitleLines == { TitleLine(title) : title \in Titles }

\* notes that are one title line, then what staging appended or the
\* placeholder
TitledOnce(notes) ==
    /\ notes # <<>>
    /\ <<notes[1]>> \in TitleLines
    /\ \A i \in 2..Len(notes) :
          /\ <<notes[i]>> \notin TitleLines
          /\ <<notes[i]>> \in Notes \cup {NoChanges}

\* C38: the notes of a checkpoint a successful finalize has made begin
\* with exactly one title line, that of the successful call, followed by
\* the notes appended during staging, however many finalize calls on the
\* same in-progress checkpoint failed before.
C38_OneTitleLine ==
    [][ \A title \in Titles :
          (FinalizeStep /\ FinalizeWith(title) /\ last'.res = "ok" /\ last'.arg = 1)
          => \A new \in (DOMAIN backups') \ (DOMAIN backups) :
                /\ TitledOnce(NotesOf(backups'[new]))
                /\ <<NotesOf(backups'[new])[1]>> = TitleLine(title) ]_vars

====
